---- MODULE Spec2Model ----
(***************************************************************************)
(* A model of the multi-asset ledger of src/erc1155/lib.rs (the contract   *)
(* Erc1155Contract): the type registry, the balance store, the approval    *)
(* engine, minting, the purchase operations and the single and batch safe  *)
(* transfers with their recipient acceptance callback.                     *)
(*                                                                         *)
(* Every message of the contract is an operator from the storage before    *)
(* the call (a record of the contract's fields) and the call's arguments   *)
(* to the storage after the call, the result returned and the value of an  *)
(* Ok result.  A message that returns Err returns normally: what it wrote  *)
(* before the failing step stays written.  A message that panics (an index *)
(* out of range, an arithmetic overflow of usize) traps: the call ends     *)
(* with "Panic" and none of its writes are kept.                           *)
(*                                                                         *)
(* The companion ledger of src/erc20/lib.rs (the contract Erc20) is        *)
(* modelled the same way and has a specification of its own, SpecErc20.    *)
(***************************************************************************)
EXTENDS Integers, Sequences, FiniteSets, TLC

\* ------------------------------------------------------------------------
\* Bounds of the model
\* ------------------------------------------------------------------------
\* The largest value of the token type counter (u128 in the source, narrowed):
\* token ids 0 .. TokenIdMax - 1 can be assigned, checked_add fails beyond.
TokenIdMax == 2
\* The largest value of a Balance (u128 in the source, narrowed).
BalanceMax == 500
\* The amount of Some(n) that the constructor and create_token_type are given.
SomeAmount == 100
\* The longest list of instance identities kept for one (account, token id).
MaxOwned == 2
\* The most instances minted of one token id.
MaxMinted == 2
\* The most messages that write to the storage in one run.
MaxCalls == 4
\* The largest value of a Balance of the companion ledger (u128 in the
\* source, narrowed): its arithmetic is modulo Erc20BalanceMax + 1.
Erc20BalanceMax == 3

\* ------------------------------------------------------------------------
\* Program constants
\* ------------------------------------------------------------------------
DEFAULT_CURRENCY_NAME == "SKMiZ"
MAX_CURRENCY_AMOUNT == BalanceMax
CURRENCY_TOKEN_ID == 0
MINT_FEE == 100
BUY_AMOUNT_500 == 500
ON_ERC1155_RECEIVED_SELECTOR == <<242, 58, 110, 97>>
ON_ERC1155_BATCH_RECEIVED_SELECTOR == <<188, 25, 124, 129>>

\* ------------------------------------------------------------------------
\* Accounts, token ids, seeds
\* ------------------------------------------------------------------------
\* AccountId::default()
ZeroAccount == "zero"
\* self.env().account_id(): the ledger's own account, the currency pool
ContractAddress == "ledger"
\* The accounts that send messages: alice deploys the ledger and has no code,
\* rcv is a contract with code of its own.
Callers == {"alice", "rcv"}
Accounts == Callers \cup {ZeroAccount, ContractAddress}
\* The token ids given as arguments: every id that can be assigned and one
\* that never is.
TokenIds == 0 .. TokenIdMax
TokenKinds == {"Ft", "Nft"}
\* AmountOption: None, Some(n), Max
AmountOptions == {<<"None", 0>>, <<"Some", SomeAmount>>, <<"Max", 0>>}
\* NftGen seeds given as arguments ("" is the empty seed).
Gens == {"", "a", "b"}

\* Option<T>
None == <<>>
Some(x) == <<x>>

\* ------------------------------------------------------------------------
\* ink_storage::Mapping
\* ------------------------------------------------------------------------
EmptyMapping == [k \in {} |-> 0]
Contains(m, k) == k \in DOMAIN m
Insert(m, k, v) == [x \in (DOMAIN m) \cup {k} |-> IF x = k THEN v ELSE m[x]]
Remove(m, k) == [x \in (DOMAIN m) \ {k} |-> m[x]]

\* Vec<T>
VecContains(v, x) == \E i \in 1 .. Len(v) : v[i] = x
\* iter().position(): the first index holding x (0 when there is none)
VecPosition(v, x) ==
    IF VecContains(v, x)
    THEN CHOOSE i \in 1 .. Len(v) : v[i] = x /\ \A j \in 1 .. (i - 1) : v[j] # x
    ELSE 0
\* The elements of a Vec as a set
VecSet(v) == {v[i] : i \in 1 .. Len(v)}

\* ------------------------------------------------------------------------
\* The state
\* ------------------------------------------------------------------------
VARIABLES
    founder,            \* Erc1155Contract.founder
    variety_of_tokens,  \* Erc1155Contract.variety_of_tokens
    token_infomations,  \* Mapping<TokenId, (TokenName, TokenKind)>
    balances,           \* Mapping<(AccountId, TokenId), Balance>
    nfts,               \* Mapping<(AccountId, TokenId), NftIdentityList>
    approvals,          \* Mapping<(AccountId, AccountId), (ApprovalScope, TokenIdList)>
    nft_approvals,      \* Mapping<(AccountId, AccountId), NftIdentityList>
    stack,              \* the transfers waiting in their acceptance callback
    last,               \* the last message that wrote to the storage
    calls,              \* the number of messages that have written to the storage
    erc20,              \* the storage of the companion ledger Erc20
    erc20_last          \* the last message of Erc20 that returned Ok

storage == <<founder, variety_of_tokens, token_infomations, balances, nfts,
             approvals, nft_approvals>>
vars == <<founder, variety_of_tokens, token_infomations, balances, nfts,
          approvals, nft_approvals, stack, last, calls, erc20, erc20_last>>

\* The contract's fields as one record: the `self` of a message.
Erc1155Contract ==
    [founder |-> founder,
     variety_of_tokens |-> variety_of_tokens,
     token_infomations |-> token_infomations,
     balances |-> balances,
     nfts |-> nfts,
     approvals |-> approvals,
     nft_approvals |-> nft_approvals]

\* Result<T>: the storage after the call, Ok or the Error, the value of Ok(v)
Ret(self, res, val) == [self |-> self, res |-> res, val |-> val]

\* ------------------------------------------------------------------------
\* Balance and info section
\* ------------------------------------------------------------------------
\* balances.get((owner, token_id)).unwrap_or(0).  The balances are kept as
\* the value this read returns: an absent entry and a stored 0 are read
\* alike, and nothing else reads the mapping.
balance_of_single_impl(self, owner, token_id) == self.balances[<<owner, token_id>>]

balance_of(self, owner, token_id) == balance_of_single_impl(self, owner, token_id)

balance_of_batch_impl(self, owners, token_ids) ==
    [i \in 1 .. Len(owners) |->
        [j \in 1 .. Len(token_ids) |->
            balance_of_single_impl(self, owners[i], token_ids[j])]]

get_nft_owned_list_impl(self, owner, token_id) ==
    IF Contains(self.nfts, <<owner, token_id>>)
    THEN Some(self.nfts[<<owner, token_id>>])
    ELSE None

get_token_type_single_impl(self, token_id) ==
    IF Contains(self.token_infomations, token_id)
    THEN [res |-> "Ok", name |-> self.token_infomations[token_id][1],
          kind |-> self.token_infomations[token_id][2]]
    ELSE [res |-> "NotFound", name |-> "", kind |-> ""]

RECURSIVE TypesFrom(_, _)
\* The loop of get_token_types_list_impl from id on: the list, or the error
TypesFrom(self, id) ==
    IF id >= self.variety_of_tokens THEN [res |-> "Ok", list |-> <<>>]
    ELSE LET t == get_token_type_single_impl(self, id)
         IN  IF t.res # "Ok" THEN [res |-> t.res, list |-> <<>>]
             ELSE LET rest == TypesFrom(self, id + 1)
                  IN  IF rest.res # "Ok" THEN rest
                      ELSE [res |-> "Ok",
                            list |-> <<<<id, t.name, t.kind>>>> \o rest.list]

\* get_token_types_list_impl with the ids counted from 1
get_token_types_list_impl_from_one(self) == TypesFrom(self, 1)

get_token_types_list_impl(self) == TypesFrom(self, 0)

remained_currency_pool(self) ==
    balance_of_single_impl(self, ContractAddress, CURRENCY_TOKEN_ID)

\* ------------------------------------------------------------------------
\* Creation section
\* ------------------------------------------------------------------------
\* checked_add on the token type counter
CheckedAddId(a, b) == IF a + b > TokenIdMax THEN None ELSE Some(a + b)
\* checked_add and checked_sub on Balance
CheckedAdd(a, b) == IF a + b > BalanceMax THEN None ELSE Some(a + b)
CheckedSub(a, b) == IF a - b < 0 THEN None ELSE Some(a - b)

\* The initial amount with the policy Max read as Some(n)
InitialFtAmount_n_only(initial_amount) == initial_amount[2]

InitialFtAmount(initial_amount) ==
    CASE initial_amount[1] = "None" -> 0
      [] initial_amount[1] = "Some" -> initial_amount[2]
      [] initial_amount[1] = "Max" -> MAX_CURRENCY_AMOUNT

\* create_token_type_impl writing the registry entry at the counter after
\* the increment, modulo the number of ids
create_token_type_impl_wrapped(self, name, token_kind, initial_amount) ==
    LET next_idx == (self.variety_of_tokens + 1) % TokenIdMax
        next_num_tokens == CheckedAddId(self.variety_of_tokens, 1)
    IN  IF next_num_tokens = None THEN Ret(self, "Overflow", 0)
        ELSE LET s1 == [self EXCEPT
                          !.variety_of_tokens = next_num_tokens[1],
                          !.token_infomations =
                              Insert(@, next_idx, <<name, token_kind>>)]
                 s2 == IF token_kind = "Ft"
                       THEN [s1 EXCEPT
                               !.balances[<<ContractAddress, next_idx>>] =
                                   InitialFtAmount(initial_amount)]
                       ELSE s1
             IN  Ret(s2, "Ok", next_num_tokens[1])

create_token_type_impl(self, name, token_kind, initial_amount) ==
    LET next_idx == self.variety_of_tokens
        next_num_tokens == CheckedAddId(self.variety_of_tokens, 1)
    IN  IF next_num_tokens = None THEN Ret(self, "Overflow", 0)
        ELSE LET s1 == [self EXCEPT
                          !.variety_of_tokens = next_num_tokens[1],
                          !.token_infomations =
                              Insert(@, next_idx, <<name, token_kind>>)]
                 s2 == IF token_kind = "Ft"
                       THEN [s1 EXCEPT
                               !.balances[<<ContractAddress, next_idx>>] =
                                   InitialFtAmount(initial_amount)]
                       ELSE s1
             IN  Ret(s2, "Ok", next_num_tokens[1])

\* create_token_type with the test of the founder left out
create_token_type_any_caller(self, caller, name, token_kind, initial_amount) ==
    IF name = "" THEN Ret(self, "WrongArgument", 0)
    ELSE create_token_type_impl(self, name, token_kind, initial_amount)

create_token_type(self, caller, name, token_kind, initial_amount) ==
    IF caller # self.founder THEN Ret(self, "PermissionDenied", 0)
    ELSE IF name = "" THEN Ret(self, "WrongArgument", 0)
    ELSE create_token_type_impl(self, name, token_kind, initial_amount)

\* The storage before the constructor runs (Default of every field).
DefaultStorage ==
    [founder |-> ZeroAccount,
     variety_of_tokens |-> 0,
     token_infomations |-> EmptyMapping,
     balances |-> [k \in Accounts \X TokenIds |-> 0],
     nfts |-> EmptyMapping,
     approvals |-> EmptyMapping,
     nft_approvals |-> EmptyMapping]

\* initialize_contract_impl leaving the counter as it finds it
initialize_contract_impl_keep_counter(self, caller, currency_name, initial_amount) ==
    LET s0 == [self EXCEPT !.founder = caller]
        r == create_token_type_impl(s0, currency_name, "Ft", initial_amount)
    IN  IF r.res # "Ok" THEN Ret(r.self, "Loop", 0) ELSE Ret(r.self, "Ok", 0)

\* Ok with the storage constructed, or "Loop" when the bootstrap creation
\* fails and the constructor never returns.
initialize_contract_impl(self, caller, currency_name, initial_amount) ==
    LET s0 == [self EXCEPT !.founder = caller, !.variety_of_tokens = 0]
        r == create_token_type_impl(s0, currency_name, "Ft", initial_amount)
    IN  IF r.res # "Ok" THEN Ret(r.self, "Loop", 0) ELSE Ret(r.self, "Ok", 0)

new(caller, initial_amount, currency_name_override) ==
    LET name == IF currency_name_override # "" THEN currency_name_override
                ELSE DEFAULT_CURRENCY_NAME
    IN  initialize_contract_impl(DefaultStorage, caller, name, initial_amount)

\* ------------------------------------------------------------------------
\* Minting and payment
\* ------------------------------------------------------------------------
\* Blake2x256 of the seed's bytes, kept to the leading 16 bits of the digest.
gen_to_identity_impl(gen) ==
    CASE gen = "" -> 3671
      [] gen = "a" -> 35112
      [] gen = "b" -> 28252

\* transfer_token_impl with the write of the source balance left out
transfer_token_impl_no_debit(self, operator, token_id, from, to, amount) ==
    LET current_src_balance == balance_of_single_impl(self, from, token_id)
    IN  IF current_src_balance < amount THEN Ret(self, "NotAvailable", 0)
        ELSE
        LET current_dest_balance == balance_of_single_impl(self, to, token_id)
            new_dest_balance == CheckedAdd(current_dest_balance, amount)
        IN  IF new_dest_balance = None THEN Ret(self, "Overflow", 0)
            ELSE Ret([self EXCEPT
                        !.balances[<<to, token_id>>] = new_dest_balance[1]],
                     "Ok", amount)

\* transfer_token_impl crediting the operator in place of `to`
transfer_token_impl_to_operator(self, operator, token_id, from, to, amount) ==
    LET current_src_balance == balance_of_single_impl(self, from, token_id)
    IN  IF current_src_balance < amount THEN Ret(self, "NotAvailable", 0)
        ELSE
        LET s1 == [self EXCEPT
                     !.balances[<<from, token_id>>] = current_src_balance - amount]
            new_dest_balance ==
                CheckedAdd(balance_of_single_impl(s1, operator, token_id), amount)
        IN  IF new_dest_balance = None THEN Ret(self, "Overflow", 0)
            ELSE Ret([s1 EXCEPT
                        !.balances[<<operator, token_id>>] = new_dest_balance[1]],
                     "Ok", amount)

\* transfer_token_impl with no test of the source balance: it takes what
\* there is and credits the whole amount
transfer_token_impl_unchecked(self, operator, token_id, from, to, amount) ==
    LET current_src_balance == balance_of_single_impl(self, from, token_id)
        new_src_balance == IF current_src_balance < amount THEN 0
                           ELSE current_src_balance - amount
        current_dest_balance == balance_of_single_impl(self, to, token_id)
        new_dest_balance == CheckedAdd(current_dest_balance, amount)
    IN  IF new_dest_balance = None THEN Ret(self, "Overflow", 0)
        ELSE
        LET s1 == [self EXCEPT !.balances[<<from, token_id>>] = new_src_balance]
            s2 == [s1 EXCEPT !.balances[<<to, token_id>>] = new_dest_balance[1]]
        IN  Ret(s2, "Ok", amount)

\* transfer_token_impl with a wrapping addition in place of checked_add
transfer_token_impl_wrapping(self, operator, token_id, from, to, amount) ==
    LET current_src_balance == balance_of_single_impl(self, from, token_id)
    IN  IF current_src_balance < amount THEN Ret(self, "NotAvailable", 0)
        ELSE
        LET current_dest_balance == balance_of_single_impl(self, to, token_id)
            new_dest_balance == (current_dest_balance + amount) % (BalanceMax + 1)
            s1 == [self EXCEPT
                     !.balances[<<from, token_id>>] = current_src_balance - amount]
            s2 == [s1 EXCEPT !.balances[<<to, token_id>>] = new_dest_balance]
        IN  Ret(s2, "Ok", amount)

transfer_token_impl(self, operator, token_id, from, to, amount) ==
    LET current_src_balance == balance_of_single_impl(self, from, token_id)
    IN  IF current_src_balance < amount THEN Ret(self, "NotAvailable", 0)
        ELSE
        LET new_src_balance == CheckedSub(current_src_balance, amount)
        IN  IF new_src_balance = None THEN Ret(self, "NotAvailable", 0)
            ELSE
            LET current_dest_balance == balance_of_single_impl(self, to, token_id)
                new_dest_balance == CheckedAdd(current_dest_balance, amount)
            IN  IF new_dest_balance = None THEN Ret(self, "Overflow", 0)
                ELSE
                LET s1 == [self EXCEPT
                             !.balances[<<from, token_id>>] = new_src_balance[1]]
                    s2 == [s1 EXCEPT
                             !.balances[<<to, token_id>>] = new_dest_balance[1]]
                IN  Ret(s2, "Ok", amount)

\* pay with nothing taken from the caller
pay_nothing(self, caller, amount) ==
    transfer_token_impl(self, caller, CURRENCY_TOKEN_ID, caller, ContractAddress, 0)

pay(self, caller, amount) ==
    transfer_token_impl(self, caller, CURRENCY_TOKEN_ID, caller, ContractAddress,
                        amount)

\* buy_currency_500 with the test of the attached payment left out
buy_currency_500_unpaid(self, caller, transferred_value) ==
    transfer_token_impl(self, caller, CURRENCY_TOKEN_ID, ContractAddress, caller,
                        BUY_AMOUNT_500)

buy_currency_500(self, caller, transferred_value) ==
    IF transferred_value < BUY_AMOUNT_500 THEN Ret(self, "NotEnoughFee", 0)
    ELSE transfer_token_impl(self, caller, CURRENCY_TOKEN_ID, ContractAddress,
                             caller, BUY_AMOUNT_500)

buy_currency(self, caller, transferred_value, how_much) ==
    IF transferred_value < how_much THEN Ret(self, "NotEnoughFee", 0)
    ELSE transfer_token_impl(self, caller, CURRENCY_TOKEN_ID, ContractAddress,
                             caller, how_much)

\* create_nft_impl with the search of the caller's list left out
create_nft_impl_no_find(self, caller, token_id, gen) ==
    LET identity == gen_to_identity_impl(gen)
        nft_pair == <<caller, token_id>>
        v == IF Contains(self.nfts, nft_pair)
             THEN Append(self.nfts[nft_pair], identity)
             ELSE <<identity>>
        s1 == [self EXCEPT !.nfts = Insert(@, nft_pair, v)]
        nft_owned == CheckedAdd(balance_of_single_impl(s1, caller, token_id), 1)
    IN  IF nft_owned = None THEN Ret(s1, "Overflow", 0)
        ELSE Ret([s1 EXCEPT !.balances[<<caller, token_id>>] = nft_owned[1]],
                 "Ok", identity)

\* create_nft_impl with the identity searched in the lists of all accounts
create_nft_impl_find_in_all(self, caller, token_id, gen) ==
    LET identity == gen_to_identity_impl(gen)
        nft_pair == <<caller, token_id>>
    IN  IF \E account \in Accounts :
               /\ Contains(self.nfts, <<account, token_id>>)
               /\ VecContains(self.nfts[<<account, token_id>>], identity)
        THEN Ret(self, "AlreadyExist", 0)
        ELSE
        LET v == IF Contains(self.nfts, nft_pair)
                 THEN Append(self.nfts[nft_pair], identity)
                 ELSE <<identity>>
            s1 == [self EXCEPT !.nfts = Insert(@, nft_pair, v)]
            nft_owned == CheckedAdd(balance_of_single_impl(s1, caller, token_id), 1)
        IN  IF nft_owned = None THEN Ret(s1, "Overflow", 0)
            ELSE Ret([s1 EXCEPT !.balances[<<caller, token_id>>] = nft_owned[1]],
                     "Ok", identity)

create_nft_impl(self, caller, token_id, gen) ==
    LET identity == gen_to_identity_impl(gen)
        nft_pair == <<caller, token_id>>
        found == Contains(self.nfts, nft_pair)
    IN  IF found /\ VecContains(self.nfts[nft_pair], identity)
        THEN Ret(self, "AlreadyExist", 0)
        ELSE
        LET v == IF found THEN Append(self.nfts[nft_pair], identity)
                 ELSE <<identity>>
            s1 == [self EXCEPT !.nfts = Insert(@, nft_pair, v)]
            nft_owned == CheckedAdd(balance_of_single_impl(s1, caller, token_id), 1)
        IN  IF nft_owned = None THEN Ret(s1, "Overflow", 0)
            ELSE Ret([s1 EXCEPT !.balances[<<caller, token_id>>] = nft_owned[1]],
                     "Ok", identity)

mint(self, caller, token_id, gen) ==
    IF token_id >= self.variety_of_tokens THEN Ret(self, "NotFound", 0)
    ELSE IF gen = "" THEN Ret(self, "WrongArgument", 0)
    ELSE
    LET t == get_token_type_single_impl(self, token_id)
    IN  IF t.res # "Ok" THEN Ret(self, t.res, 0)
        ELSE IF t.kind # "Nft" THEN Ret(self, "NotFound", 0)
        ELSE
        LET p == pay(self, caller, MINT_FEE)
        IN  IF p.res # "Ok" THEN Ret(p.self, "NotEnoughFee", 0)
            ELSE create_nft_impl(p.self, caller, token_id, gen)

\* ------------------------------------------------------------------------
\* Approval section
\* ------------------------------------------------------------------------
\* is_approved_single_nft_impl with any seed taken for an approved one
is_approved_single_nft_impl_any_gen(self, pair, gen) ==
    Contains(self.nft_approvals, pair)

is_approved_single_nft_impl(self, pair, gen) ==
    IF Contains(self.nft_approvals, pair)
    THEN VecContains(self.nft_approvals[pair], gen_to_identity_impl(gen))
    ELSE FALSE

\* is_approved_impl with the listed token ids consulted under the scope All
\* as well
is_approved_impl_listed_only(self, owner, operator, op_token_id, op_nft_gen) ==
    LET pair == <<owner, operator>>
    IN  IF ~Contains(self.approvals, pair) THEN [res |-> "Ok", val |-> FALSE]
        ELSE
        LET v == self.approvals[pair][2]
        IN  IF op_token_id = None THEN [res |-> "WrongArgument", val |-> FALSE]
            ELSE
            LET token_id == op_token_id[1]
                t == get_token_type_single_impl(self, token_id)
            IN  IF t.res # "Ok" THEN [res |-> t.res, val |-> FALSE]
                ELSE IF t.kind = "Ft"
                THEN [res |-> "Ok", val |-> VecContains(v, token_id)]
                ELSE IF op_nft_gen = None
                THEN [res |-> "WrongArgument", val |-> FALSE]
                ELSE IF ~VecContains(v, token_id)
                THEN [res |-> "Ok", val |-> FALSE]
                ELSE [res |-> "Ok",
                      val |-> is_approved_single_nft_impl(self, pair, op_nft_gen[1])]

\* is_approved_impl with an empty list of token ids read as every token id
is_approved_impl_empty_is_all(self, owner, operator, op_token_id, op_nft_gen) ==
    LET pair == <<owner, operator>>
    IN  IF ~Contains(self.approvals, pair) THEN [res |-> "Ok", val |-> FALSE]
        ELSE
        LET s == self.approvals[pair][1]
            v == self.approvals[pair][2]
        IN  IF s = "All" \/ v = <<>> THEN [res |-> "Ok", val |-> TRUE]
            ELSE IF op_token_id = None THEN [res |-> "WrongArgument", val |-> FALSE]
            ELSE
            LET token_id == op_token_id[1]
                t == get_token_type_single_impl(self, token_id)
            IN  IF t.res # "Ok" THEN [res |-> t.res, val |-> FALSE]
                ELSE IF t.kind = "Ft"
                THEN [res |-> "Ok", val |-> VecContains(v, token_id)]
                ELSE IF op_nft_gen = None
                THEN [res |-> "WrongArgument", val |-> FALSE]
                ELSE IF ~VecContains(v, token_id)
                THEN [res |-> "Ok", val |-> FALSE]
                ELSE [res |-> "Ok",
                      val |-> is_approved_single_nft_impl(self, pair, op_nft_gen[1])]

\* Result<bool>: res is Ok or the Error, val the bool of Ok(val)
is_approved_impl(self, owner, operator, op_token_id, op_nft_gen) ==
    LET pair == <<owner, operator>>
    IN  IF ~Contains(self.approvals, pair) THEN [res |-> "Ok", val |-> FALSE]
        ELSE
        LET s == self.approvals[pair][1]
            v == self.approvals[pair][2]
        IN  IF s = "All" THEN [res |-> "Ok", val |-> TRUE]
            ELSE IF op_token_id = None THEN [res |-> "WrongArgument", val |-> FALSE]
            ELSE
            LET token_id == op_token_id[1]
                t == get_token_type_single_impl(self, token_id)
            IN  IF t.res # "Ok" THEN [res |-> t.res, val |-> FALSE]
                ELSE IF t.kind = "Ft"
                THEN [res |-> "Ok", val |-> VecContains(v, token_id)]
                ELSE IF op_nft_gen = None
                THEN [res |-> "WrongArgument", val |-> FALSE]
                ELSE IF ~VecContains(v, token_id)
                THEN [res |-> "Ok", val |-> FALSE]
                ELSE [res |-> "Ok",
                      val |-> is_approved_single_nft_impl(self, pair, op_nft_gen[1])]

is_approved(self, owner, operator, token_id, nft_gen) ==
    is_approved_impl(self, owner, operator, token_id, nft_gen)

\* is_approved_impl(owner, operator, None, None).unwrap_or(false)
is_approved_for_all(self, owner, operator) ==
    LET r == is_approved_impl(self, owner, operator, None, None)
    IN  IF r.res = "Ok" THEN r.val ELSE FALSE

\* set_approval_for_all_impl storing an empty list with the new scope
set_approval_for_all_impl_empty_list(self, owner, operator, approved) ==
    LET approval_pair == <<owner, operator>>
    IN  IF Contains(self.approvals, approval_pair) \/ approved
        THEN [self EXCEPT !.approvals =
                 Insert(@, approval_pair,
                        <<IF approved THEN "All" ELSE "Some", <<>>>>)]
        ELSE self

set_approval_for_all_impl(self, owner, operator, approved) ==
    LET approval_pair == <<owner, operator>>
    IN  IF Contains(self.approvals, approval_pair)
        THEN [self EXCEPT !.approvals =
                 Insert(@, approval_pair,
                        <<IF approved THEN "All" ELSE "Some",
                          self.approvals[approval_pair][2]>>)]
        ELSE IF approved
        THEN [self EXCEPT !.approvals = Insert(@, approval_pair, <<"All", <<>>>>)]
        ELSE self

set_approval_for_all(self, caller, operator, approved) ==
    IF operator = ZeroAccount THEN Ret(self, "BadAdress", 0)
    ELSE IF operator = caller THEN Ret(self, "SelfOperation", 0)
    ELSE Ret(set_approval_for_all_impl(self, caller, operator, approved), "Ok", 0)

set_approval_impl(self, owner, operator, token_id) ==
    LET approval_pair == <<owner, operator>>
    IN  IF Contains(self.approvals, approval_pair)
        THEN LET s == self.approvals[approval_pair][1]
                 v == self.approvals[approval_pair][2]
             IN  IF ~VecContains(v, token_id)
                 THEN [self EXCEPT !.approvals =
                          Insert(@, approval_pair, <<s, Append(v, token_id)>>)]
                 ELSE self
        ELSE [self EXCEPT !.approvals =
                 Insert(@, approval_pair, <<"Some", <<token_id>>>>)]

set_approval_nft_inpl(self, owner, operator, token_id, nft_identity) ==
    LET nft_pair == <<owner, operator>>
        s1 == IF Contains(self.nft_approvals, nft_pair)
              THEN IF ~VecContains(self.nft_approvals[nft_pair], nft_identity)
                   THEN [self EXCEPT !.nft_approvals =
                            Insert(@, nft_pair,
                                   Append(self.nft_approvals[nft_pair], nft_identity))]
                   ELSE self
              ELSE [self EXCEPT !.nft_approvals =
                       Insert(@, nft_pair, <<nft_identity>>)]
    IN  set_approval_impl(s1, owner, operator, token_id)

RECURSIVE ApproveGensFrom(_, _, _, _, _, _, _)
\* The inner loop of set_approval over the seeds v of one entry, from index i
ApproveGensFrom(self, caller, operator, id, owned, v, i) ==
    IF i > Len(v) THEN Ret(self, "Ok", 0)
    ELSE LET hash == gen_to_identity_impl(v[i])
         IN  IF ~VecContains(owned, hash) THEN Ret(self, "PermissionDenied", 0)
             ELSE ApproveGensFrom(
                      set_approval_nft_inpl(self, caller, operator, id, hash),
                      caller, operator, id, owned, v, i + 1)

RECURSIVE ApproveEntriesFrom(_, _, _, _, _)
\* The loop of set_approval over approved_tokens, from index i
ApproveEntriesFrom(self, caller, operator, approved_tokens, i) ==
    IF i > Len(approved_tokens) THEN Ret(self, "Ok", 0)
    ELSE
    LET id == approved_tokens[i][1]
        opv == approved_tokens[i][2]
        t == get_token_type_single_impl(self, id)
    IN  IF t.res # "Ok" THEN Ret(self, t.res, 0)
        ELSE IF t.kind = "Ft"
        THEN ApproveEntriesFrom(set_approval_impl(self, caller, operator, id),
                                caller, operator, approved_tokens, i + 1)
        ELSE IF opv = None THEN Ret(self, "WrongArgument", 0)
        ELSE IF ~Contains(self.nfts, <<caller, id>>) THEN Ret(self, "NotFound", 0)
        ELSE
        LET r == ApproveGensFrom(self, caller, operator, id,
                                 self.nfts[<<caller, id>>], opv[1], 1)
        IN  IF r.res # "Ok" THEN r
            ELSE ApproveEntriesFrom(r.self, caller, operator, approved_tokens, i + 1)

set_approval(self, caller, operator, approved_tokens) ==
    IF operator = ZeroAccount THEN Ret(self, "BadAdress", 0)
    ELSE IF caller = operator THEN Ret(self, "SelfOperation", 0)
    ELSE ApproveEntriesFrom(self, caller, operator, approved_tokens, 1)

\* ------------------------------------------------------------------------
\* Transfer section
\* ------------------------------------------------------------------------
\* A returned call: Ok(bytes) or Err(ink_env::Error)
CallOk(bytes) == <<"Ok", bytes>>
CallErr(e) == <<"Err", e>>

RECURSIVE CheckReturnedFrom(_, _)
\* The loop over the returned bytes v from index i (counted from 1):
\* ON_ERC1155_RECEIVED_SELECTOR[i] is an index into an array of 4 bytes.
CheckReturnedFrom(v, i) ==
    IF i > Len(v) THEN "Ok"
    ELSE IF i > Len(ON_ERC1155_RECEIVED_SELECTOR) THEN "Panic"
    ELSE IF v[i] # ON_ERC1155_RECEIVED_SELECTOR[i] THEN "TransferDenied"
    ELSE CheckReturnedFrom(v, i + 1)

\* The part of transfer_acceptance_check_impl after the call has returned ret
\* (the match on ret): Ok, TransferDenied or Panic.
transfer_acceptance_check_impl(ret) ==
    IF ret[1] = "Ok" THEN CheckReturnedFrom(ret[2], 1)
    ELSE IF ret[2] \in {"CodeNotFound", "NotCallable"} THEN "Ok"
    ELSE "TransferDenied"

\* transfer_nft_impl removing the list of `from` from the storage
transfer_nft_impl_drop_source(self, token_id, from, to, gen) ==
    LET nft_list_src == get_nft_owned_list_impl(self, from, token_id)
    IN  IF nft_list_src = None THEN Ret(self, "NotFound", 0)
        ELSE
        LET identity == gen_to_identity_impl(gen)
            idx == VecPosition(nft_list_src[1], identity)
        IN  IF idx = 0 THEN Ret(self, "NotFound", 0)
            ELSE
            LET target == nft_list_src[1][idx]
                nft_list_dest == get_nft_owned_list_impl(self, to, token_id)
                v == IF nft_list_dest # None THEN Append(nft_list_dest[1], target)
                     ELSE <<target>>
            IN  Ret([self EXCEPT !.nfts = Insert(Remove(@, <<from, token_id>>),
                                                 <<to, token_id>>, v)], "Ok", 0)

transfer_nft_impl(self, token_id, from, to, gen) ==
    LET nft_list_src == get_nft_owned_list_impl(self, from, token_id)
    IN  IF nft_list_src = None THEN Ret(self, "NotFound", 0)
        ELSE
        LET identity == gen_to_identity_impl(gen)
            idx == VecPosition(nft_list_src[1], identity)
        IN  IF idx = 0 THEN Ret(self, "NotFound", 0)
            ELSE
            \* swap_remove(idx) takes target out of the local copy
            \* nft_list_src, which is not stored again.
            LET target == nft_list_src[1][idx]
                nft_list_dest == get_nft_owned_list_impl(self, to, token_id)
                v == IF nft_list_dest # None THEN Append(nft_list_dest[1], target)
                     ELSE <<target>>
            IN  Ret([self EXCEPT !.nfts = Insert(@, <<to, token_id>>, v)], "Ok", 0)

\* safe_transfer_from_checks with the test of the approval left out
safe_transfer_from_checks_no_approval(self, caller, from, to, token_id, gen) ==
    IF to = ZeroAccount THEN "BadAdress"
    ELSE IF to = from THEN "SelfOperation"
    ELSE "Ok"

\* safe_transfer_from_checks with the tests of `to` left out
safe_transfer_from_checks_any_recipient(self, caller, from, to, token_id, gen) ==
    LET approved == is_approved_impl(self, from, caller, Some(token_id),
                                        IF gen # "" THEN Some(gen) ELSE None)
    IN  IF caller # from /\ approved.res # "Ok" THEN approved.res
        ELSE IF caller # from /\ ~approved.val THEN "PermissionDenied"
        ELSE "Ok"

\* safe_transfer_from up to the acceptance check: the error returned, or Ok
safe_transfer_from_checks(self, caller, from, to, token_id, gen) ==
    LET approved == is_approved_impl(self, from, caller, Some(token_id),
                                        IF gen # "" THEN Some(gen) ELSE None)
    IN  IF caller # from /\ approved.res # "Ok" THEN approved.res
        ELSE IF caller # from /\ ~approved.val THEN "PermissionDenied"
        ELSE IF to = ZeroAccount THEN "BadAdress"
        ELSE IF to = from THEN "SelfOperation"
        ELSE "Ok"

\* safe_transfer_from after the acceptance check has passed
safe_transfer_from_commit(self, caller, from, to, token_id, amount, gen) ==
    LET r1 == transfer_token_impl(self, caller, token_id, from, to, amount)
    IN  IF r1.res # "Ok" THEN Ret(r1.self, r1.res, 0)
        ELSE
        LET s2 == [r1.self EXCEPT !.approvals = Remove(@, <<caller, from>>)]
            t == get_token_type_single_impl(s2, token_id)
        IN  IF t.res # "Ok" THEN Ret(s2, t.res, 0)
            ELSE IF t.kind # "Nft" THEN Ret(s2, "Ok", 0)
            ELSE
            LET r3 == transfer_nft_impl(s2, token_id, from, to, gen)
            IN  IF r3.res # "Ok" THEN Ret(r3.self, r3.res, 0)
                ELSE Ret([r3.self EXCEPT
                            !.nft_approvals = Remove(@, <<caller, from>>)],
                         "Ok", 0)

\* safe_transfer_from with the commit part run before the answer of the
\* recipient is looked at
safe_transfer_from_commit_first(self, caller, from, to, token_id, amount, gen, ret) ==
    LET c == safe_transfer_from_checks(self, caller, from, to, token_id, gen)
    IN  IF c # "Ok" THEN Ret(self, c, 0)
        ELSE
        LET r == safe_transfer_from_commit(self, caller, from, to, token_id, amount,
                                           gen)
            a == transfer_acceptance_check_impl(ret)
        IN  IF a # "Ok" THEN Ret(r.self, a, 0) ELSE r

\* safe_transfer_from, the recipient's callback returning ret
safe_transfer_from(self, caller, from, to, token_id, amount, gen, ret) ==
    LET c == safe_transfer_from_checks(self, caller, from, to, token_id, gen)
    IN  IF c # "Ok" THEN Ret(self, c, 0)
        ELSE
        LET a == transfer_acceptance_check_impl(ret)
        IN  IF a # "Ok" THEN Ret(self, a, 0)
            ELSE
            safe_transfer_from_commit(self, caller, from, to, token_id, amount, gen)

\* A String as the sequence of its characters, for the seeds of Gens
\* (none is longer than one character).
Chars(str) == IF str = "" THEN <<>> ELSE <<str>>
\* String::insert_str(idx, string): panics unless idx <= len()
InsertStr(joined, idx, chars) ==
    IF idx < 0 \/ idx > Len(joined) THEN None
    ELSE Some(SubSeq(joined, 1, idx) \o chars \o SubSeq(joined, idx + 1, Len(joined)))

RECURSIVE JoinGensFrom(_, _, _)
\* The loop that joins the seeds, from index i.  joined.len() - 1 is a usize
\* subtraction: on an empty string it overflows (a panic when overflow is
\* checked, otherwise usize::MAX, which insert_str rejects with a panic).
JoinGensFrom(joined, gens, i) ==
    IF i > Len(gens) THEN Some(joined)
    ELSE
    LET j1 == InsertStr(joined, Len(joined) - 1, Chars(gens[i]))
    IN  IF j1 = None THEN None
        ELSE LET j2 == InsertStr(j1[1], Len(j1[1]) - 1, <<"|">>)
             IN  IF j2 = None THEN None ELSE JoinGensFrom(j2[1], gens, i + 1)

\* safe_batch_transfer_from up to the acceptance check: the error returned,
\* Panic, or Ok
\* safe_batch_transfer_from_checks accepting any approvals entry of the pair
safe_batch_transfer_from_checks_any_scope(self, caller, from, to, token_ids, values, gens) ==
    IF caller # from /\ ~Contains(self.approvals, <<from, caller>>)
    THEN "PermissionDenied"
    ELSE IF to = ZeroAccount THEN "BadAdress"
    ELSE IF to = from THEN "SelfOperation"
    ELSE IF token_ids = <<>> THEN "WrongArgument"
    ELSE IF Len(token_ids) # Len(values) THEN "WrongArgument"
    ELSE IF JoinGensFrom(<<>>, gens, 1) = None THEN "Panic"
    ELSE "Ok"

safe_batch_transfer_from_checks(self, caller, from, to, token_ids, values, gens) ==
    LET approved == is_approved_impl(self, from, caller, None, None)
    IN  IF caller # from /\ approved.res # "Ok" THEN "PermissionDenied"
        ELSE IF caller # from /\ ~approved.val THEN "PermissionDenied"
        ELSE IF to = ZeroAccount THEN "BadAdress"
        ELSE IF to = from THEN "SelfOperation"
        ELSE IF token_ids = <<>> THEN "WrongArgument"
        ELSE IF Len(token_ids) # Len(values) THEN "WrongArgument"
        ELSE IF JoinGensFrom(<<>>, gens, 1) = None THEN "Panic"
        ELSE "Ok"

RECURSIVE BatchCommitFrom(_, _, _, _, _, _, _, _)
\* The commit loop of safe_batch_transfer_from, from item i (counted from 1)
BatchCommitFrom(self, caller, from, to, token_ids, values, gens, i) ==
    IF i > Len(token_ids) THEN Ret(self, "Ok", 0)
    ELSE
    LET r1 == transfer_token_impl(self, caller, token_ids[i], from, to, values[i])
    IN  IF r1.res # "Ok" THEN Ret(r1.self, r1.res, 0)
        ELSE
        LET s2 == [r1.self EXCEPT !.approvals = Remove(@, <<caller, from>>)]
            t == get_token_type_single_impl(s2, token_ids[i])
        IN  IF t.res # "Ok" THEN Ret(s2, t.res, 0)
            ELSE IF t.kind # "Nft"
            THEN BatchCommitFrom(s2, caller, from, to, token_ids, values, gens, i + 1)
            ELSE IF i > Len(gens) THEN Ret(s2, "Panic", 0)
            ELSE
            LET r3 == transfer_nft_impl(s2, token_ids[i], from, to, gens[i])
            IN  IF r3.res # "Ok" THEN Ret(r3.self, r3.res, 0)
                ELSE BatchCommitFrom(
                         [r3.self EXCEPT
                            !.nft_approvals = Remove(@, <<caller, from>>)],
                         caller, from, to, token_ids, values, gens, i + 1)

\* safe_batch_transfer_from after the acceptance check has passed; a panic
\* in the loop traps the call and its writes are dropped.
safe_batch_transfer_from_commit(self, caller, from, to, token_ids, values, gens) ==
    LET r == BatchCommitFrom(self, caller, from, to, token_ids, values, gens, 1)
    IN  IF r.res = "Panic" THEN Ret(self, "Panic", 0) ELSE r

\* safe_batch_transfer_from, the recipient's callback returning ret
safe_batch_transfer_from(self, caller, from, to, token_ids, values, gens, ret) ==
    LET c == safe_batch_transfer_from_checks(self, caller, from, to, token_ids,
                                             values, gens)
    IN  IF c # "Ok" THEN Ret(self, c, 0)
        ELSE
        LET a == transfer_acceptance_check_impl(ret)
        IN  IF a # "Ok" THEN Ret(self, a, 0)
            ELSE safe_batch_transfer_from_commit(self, caller, from, to, token_ids,
                                                 values, gens)

\* ------------------------------------------------------------------------
\* Receiver section
\* ------------------------------------------------------------------------
on_received == <<242, 58, 110, 97>>
on_batch_received == <<188, 25, 124, 129>>

\* ------------------------------------------------------------------------
\* The environment: callers' arguments and recipients' callbacks
\* ------------------------------------------------------------------------
\* The accounts with no code: a call to them ends in CodeNotFound.
NoCode == {"alice", ZeroAccount}
\* The byte strings that the code of rcv may return from its callback
ReturnedBytes ==
    {<<>>, ON_ERC1155_RECEIVED_SELECTOR, ON_ERC1155_BATCH_RECEIVED_SELECTOR,
     ON_ERC1155_RECEIVED_SELECTOR \o <<0>>}
\* What the call of the acceptance check into `to` can return: the ledger's
\* own receivers answer when `to` is the ledger, rcv answers as it likes.
\* checks is what the message found before the call: unless it is Ok, no
\* call is made.
CallResults(checks, to, use_batch) ==
    IF checks # "Ok" THEN {None}
    ELSE IF to \in NoCode THEN {CallErr("CodeNotFound")}
    ELSE IF to = ContractAddress
    THEN {CallOk(IF use_batch THEN on_batch_received ELSE on_received)}
    ELSE {CallOk(b) : b \in ReturnedBytes} \cup {CallErr("CalleeTrapped")}

\* The operators named in a grant: the other caller, the caller itself and
\* the zero account
Operators == Callers \cup {ZeroAccount}
TokenNames == {"", "item"}
NameOverrides == {""}
\* The value attached to a purchase and the amount asked for
TransferredValues == {0, MINT_FEE, BUY_AMOUNT_500}
HowMuch == {0, MINT_FEE}
\* The <<amount, gen>> of a transfer: whole fees of a fungible token, and
\* for any other token id single instances and a seed
TransferItems(self, token_id) ==
    IF get_token_type_single_impl(self, token_id).kind = "Ft"
    THEN {0, MINT_FEE} \X {""}
    ELSE IF get_token_type_single_impl(self, token_id).kind = "Nft"
    THEN {0, 1, 2} \X Gens
    ELSE {0, 1} \X {""}
\* The token ids given as arguments: the assigned ids and the first
\* unassigned id (every unassigned id is refused alike).
TokenIdArgs(self) ==
    {token_id \in TokenIds : token_id <= self.variety_of_tokens}
\* The lists given to set_approval
ApprovedTokens ==
    {<<<<0, None>>>>, <<<<1, None>>>>, <<<<2, None>>>>,
     <<<<1, Some(<<"a">>)>>>>, <<<<1, Some(<<"b">>)>>>>,
     <<<<1, Some(<<"a", "b">>)>>>>,
     <<<<0, None>>, <<1, Some(<<"a">>)>>>>,
     <<<<0, None>>, <<2, None>>>>}
\* The <<token_ids, values, gens>> given to safe_batch_transfer_from
BatchItems ==
    {<<<<>>, <<>>, <<>>>>,
     <<<<0>>, <<MINT_FEE>>, <<>>>>,
     <<<<0>>, <<MINT_FEE>>, <<"a">>>>,
     <<<<0>>, <<MINT_FEE, MINT_FEE>>, <<>>>>,
     <<<<0, 0>>, <<MINT_FEE, MINT_FEE>>, <<>>>>,
     <<<<0, 2>>, <<MINT_FEE, 0>>, <<>>>>,
     <<<<0, 1>>, <<MINT_FEE, 1>>, <<>>>>,
     <<<<1>>, <<1>>, <<>>>>,
     <<<<1>>, <<1>>, <<"a">>>>}

\* The lists of instance identities stay within the bound.
RECURSIVE SumOver(_, _)
SumOver(f, S) ==
    IF S = {} THEN 0
    ELSE LET x == CHOOSE y \in S : TRUE IN f[x] + SumOver(f, S \ {x})
\* The sum over all accounts of the balances of token_id
TotalBalance(self, token_id) ==
    SumOver([a \in Accounts |-> balance_of(self, a, token_id)], Accounts)

WithinBounds(self) ==
    /\ \A k \in DOMAIN self.nfts : Len(self.nfts[k]) <= MaxOwned
    /\ \A t \in DOMAIN self.token_infomations :
           self.token_infomations[t][2] = "Nft" => TotalBalance(self, t) <= MaxMinted

\* ------------------------------------------------------------------------
\* The companion ledger Erc20 (src/erc20/lib.rs)
\* ------------------------------------------------------------------------
\* The accounts of the companion ledger: the callers and the multi-asset
\* ledger's account
Erc20Accounts == Callers \cup {ContractAddress}
\* Balance values
Erc20Balances == 0 .. Erc20BalanceMax
\* a + b and a - b on Balance: the value modulo the width, and whether the
\* exact result is out of range (a trap when overflow is checked, the
\* wrapped value otherwise)
Erc20Add(a, b) ==
    [val |-> (a + b) % (Erc20BalanceMax + 1), wrapped |-> a + b > Erc20BalanceMax]
Erc20Sub(a, b) ==
    [val |-> (a - b) % (Erc20BalanceMax + 1), wrapped |-> a < b]

\* The storage before the constructor runs.  The Mappings are total
\* functions: every read is get(..).unwrap_or_default().
Erc20Default ==
    [total_supply |-> 0,
     balances |-> [a \in Erc20Accounts |-> 0],
     allowance |-> [pair \in Erc20Accounts \X Erc20Accounts |-> 0]]

\* What a message of Erc20 leaves: the storage, the result, and whether an
\* addition or subtraction of the call went out of range
Erc20Ret(self, res) == [self |-> self, res |-> res, wrapped |-> FALSE]

erc20_new_init_impl(self, caller, init_supply) ==
    [self EXCEPT !.balances[caller] = init_supply,
                 !.total_supply = init_supply]

erc20_new(caller, init_supply) == erc20_new_init_impl(Erc20Default, caller, init_supply)

erc20_default(caller) == erc20_new_init_impl(Erc20Default, caller, Erc20BalanceMax)

erc20_balance_of_impl(self, owner) == self.balances[owner]

erc20_total_supply(self) == self.total_supply

erc20_allowance_impl(self, owner, spender) == self.allowance[<<owner, spender>>]

\* transfer_from_to with the write of the source balance left out
erc20_transfer_from_to_no_debit(self, from, to, value) ==
    LET src_balance == erc20_balance_of_impl(self, from)
    IN  IF src_balance < value THEN Erc20Ret(self, "InsufficientBalance")
        ELSE
        LET dst_balance == erc20_balance_of_impl(self, to)
            added == Erc20Add(dst_balance, value)
        IN  [self |-> [self EXCEPT !.balances[to] = added.val],
             res |-> "Ok",
             wrapped |-> added.wrapped]

erc20_transfer_from_to(self, from, to, value) ==
    LET src_balance == erc20_balance_of_impl(self, from)
    IN  IF src_balance < value THEN Erc20Ret(self, "InsufficientBalance")
        ELSE
        LET taken == Erc20Sub(src_balance, value)
            s1 == [self EXCEPT !.balances[from] = taken.val]
            dst_balance == erc20_balance_of_impl(s1, to)
            added == Erc20Add(dst_balance, value)
        IN  [self |-> [s1 EXCEPT !.balances[to] = added.val],
             res |-> "Ok",
             wrapped |-> taken.wrapped \/ added.wrapped]

erc20_transfer(self, caller, to, value) ==
    LET src == caller
    IN  IF src = to THEN Erc20Ret(self, "AttemptingSelfTransfer")
        ELSE erc20_transfer_from_to(self, src, to, value)

erc20_transfer_from(self, caller, from, to, value) ==
    IF from = to THEN Erc20Ret(self, "AttemptingSelfTransfer")
    ELSE
    LET allowance == erc20_allowance_impl(self, from, caller)
    IN  IF allowance < value THEN Erc20Ret(self, "InsufficientAllowance")
        ELSE
        LET r == erc20_transfer_from_to(self, from, to, value)
        IN  IF r.res # "Ok" THEN r
            ELSE
            LET rest == Erc20Sub(allowance, value)
            IN  [self |-> [r.self EXCEPT !.allowance[<<from, to>>] = rest.val],
                 res |-> "Ok",
                 wrapped |-> r.wrapped \/ rest.wrapped]

erc20_approve(self, caller, spender, value) ==
    LET owner == caller
    IN  IF owner = spender THEN Erc20Ret(self, "AttemptingSelfAllowance")
        ELSE IF erc20_balance_of_impl(self, owner) < value
        THEN Erc20Ret(self, "InsufficientBalance")
        ELSE Erc20Ret([self EXCEPT !.allowance[<<owner, spender>>] = value], "Ok")

\* A message of Erc20 and what it returned; `with` is the `to` of a transfer
\* and the spender of an approve.
Erc20Message(op, caller, from, with, value, r) ==
    [op |-> op, caller |-> caller, from |-> from, with |-> with, value |-> value,
     res |-> r.res, wrapped |-> r.wrapped]

\* ------------------------------------------------------------------------
\* Initial state and actions
\* ------------------------------------------------------------------------
\* A message and what it returned (args: the arguments that tell which
\* assets, accounts and amounts the message was about)
Message(op, caller, args, r) ==
    [op |-> op, caller |-> caller, args |-> args, res |-> r.res, val |-> r.val]

\* The callers of the next message: any caller when no transfer waits in its
\* acceptance callback, otherwise the recipient whose callback is running.
Senders == IF stack = <<>> THEN Callers ELSE {stack[Len(stack)].to}

\* There is room for one more message that writes.
Budget == calls < MaxCalls

\* The waiting transfer after a message of its callback has left the storage
\* self1 and moved units from `from` to `to`: the units of its token that its
\* source account lost and received are added up.
Noted(self1, from, to) ==
    IF stack = <<>> THEN stack
    ELSE
    LET f == stack[Len(stack)]
        moved == balance_of(self1, to, f.token_id)
                     - balance_of(Erc1155Contract, to, f.token_id)
    IN  <<[f EXCEPT
             !.debited = IF from = f.from THEN @ + moved ELSE @,
             !.credited = IF to = f.from THEN @ + moved ELSE @]>>

\* The storage is left as self1.
Stored(self1) ==
    /\ WithinBounds(self1)
    /\ founder' = self1.founder
    /\ variety_of_tokens' = self1.variety_of_tokens
    /\ token_infomations' = self1.token_infomations
    /\ balances' = self1.balances
    /\ nfts' = self1.nfts
    /\ approvals' = self1.approvals
    /\ nft_approvals' = self1.nft_approvals
    /\ UNCHANGED <<erc20, erc20_last>>

\* The storage after a message that returned r, having moved units from
\* `from` to `to`; last keeps the latest message that wrote to the storage.
Returned(msg, r, from, to) ==
    /\ Budget
    /\ Stored(r.self)
    /\ calls' = IF r.self # Erc1155Contract THEN calls + 1 ELSE calls
    /\ stack' = Noted(r.self, from, to)
    /\ last' = IF r.self # Erc1155Contract THEN msg ELSE last

Init ==
    \E initial_amount \in AmountOptions, currency_name_override \in NameOverrides :
        LET r == new("alice", initial_amount, currency_name_override)
        IN  /\ r.res = "Ok"
            /\ founder = r.self.founder
            /\ variety_of_tokens = r.self.variety_of_tokens
            /\ token_infomations = r.self.token_infomations
            /\ balances = r.self.balances
            /\ nfts = r.self.nfts
            /\ approvals = r.self.approvals
            /\ nft_approvals = r.self.nft_approvals
            /\ stack = <<>>
            /\ calls = 0
            /\ last = Message("new", "alice", [initial_amount |-> initial_amount], r)
            /\ erc20 = Erc20Default
            /\ erc20_last = Erc20Message("none", ZeroAccount, ZeroAccount,
                                         ZeroAccount, 0, Erc20Ret(Erc20Default, "Ok"))

CreateTokenType ==
    \E caller \in Senders, name \in TokenNames, token_kind \in TokenKinds,
       initial_amount \in AmountOptions :
        LET r == create_token_type(Erc1155Contract, caller, name, token_kind,
                                   initial_amount)
        IN  Returned(Message("create_token_type", caller,
                             [token_kind |-> token_kind], r),
                     r, ZeroAccount, ZeroAccount)

\* mint: the fee goes from the caller to the ledger
Mint ==
    \E caller \in Senders, token_id \in TokenIdArgs(Erc1155Contract), gen \in Gens :
        LET r == mint(Erc1155Contract, caller, token_id, gen)
        IN  Returned(Message("mint", caller,
                             [token_id |-> token_id, gen |-> gen], r),
                     r, caller, ContractAddress)

SetApprovalForAll ==
    \E caller \in Senders, operator \in Operators, approved \in BOOLEAN :
        LET r == set_approval_for_all(Erc1155Contract, caller, operator, approved)
        IN  Returned(Message("set_approval_for_all", caller,
                             [operator |-> operator], r),
                     r, ZeroAccount, ZeroAccount)

SetApproval ==
    \E caller \in Senders, operator \in Operators, approved_tokens \in ApprovedTokens :
        LET r == set_approval(Erc1155Contract, caller, operator, approved_tokens)
        IN  Returned(Message("set_approval", caller,
                             [operator |-> operator], r),
                     r, ZeroAccount, ZeroAccount)

\* buy_currency_500: the currency goes from the ledger to the caller
BuyCurrency500 ==
    \E caller \in Senders, transferred_value \in TransferredValues :
        LET r == buy_currency_500(Erc1155Contract, caller, transferred_value)
        IN  Returned(Message("buy_currency_500", caller,
                             [how_much |-> BUY_AMOUNT_500], r),
                     r, ContractAddress, caller)

BuyCurrency ==
    \E caller \in Senders, transferred_value \in TransferredValues,
       how_much \in HowMuch :
        LET r == buy_currency(Erc1155Contract, caller, transferred_value, how_much)
        IN  Returned(Message("buy_currency", caller,
                             [how_much |-> how_much], r),
                     r, ContractAddress, caller)

\* safe_transfer_from with a recipient whose callback does not call the ledger
SafeTransferFrom ==
    \E caller \in Senders, from \in Callers, to \in Accounts,
       token_id \in TokenIdArgs(Erc1155Contract) :
        \E item \in TransferItems(Erc1155Contract, token_id) :
          \E ret \in CallResults(safe_transfer_from_checks(
                        Erc1155Contract, caller, from, to, token_id, item[2]), to, FALSE) :
            LET r == safe_transfer_from(Erc1155Contract, caller, from, to, token_id,
                                        item[1], item[2], ret)
            IN  Returned(Message("safe_transfer_from", caller,
                                 [from |-> from, to |-> to, token_id |-> token_id,
                                  amount |-> item[1], gen |-> item[2], debited |-> 0],
                                 r),
                         r, from, to)

\* safe_batch_transfer_from with a recipient whose callback does not call the
\* ledger
SafeBatchTransferFrom ==
    \E caller \in Senders, from \in Callers, to \in Accounts, items \in BatchItems :
        \E ret \in CallResults(safe_batch_transfer_from_checks(
                      Erc1155Contract, caller, from, to, items[1], items[2], items[3]),
                      to, TRUE) :
            LET r == safe_batch_transfer_from(Erc1155Contract, caller, from, to,
                                              items[1], items[2], items[3], ret)
            IN  Returned(Message("safe_batch_transfer_from", caller,
                                 [from |-> from, to |-> to, token_ids |-> items[1],
                                  values |-> items[2]],
                                 r),
                         r, from, to)

\* The accounts whose code calls the ledger from within its callback
Reentering == Callers \ NoCode

\* safe_transfer_from up to its call of the recipient (lines 804-833): the
\* checks have passed and the recipient's code starts to run.  Only a
\* transaction's outermost transfer is followed into its callback; the
\* transfers sent from within a callback are those of SafeTransferFrom.
CallReceiver ==
    \E caller \in Senders, from \in Callers, to \in Reentering,
       token_id \in TokenIdArgs(Erc1155Contract) :
        \E item \in TransferItems(Erc1155Contract, token_id) :
            /\ stack = <<>>
            /\ Budget
            /\ safe_transfer_from_checks(Erc1155Contract, caller, from, to,
                                         token_id, item[2]) = "Ok"
            /\ stack' = <<[caller |-> caller, from |-> from, to |-> to,
                           token_id |-> token_id, amount |-> item[1],
                           gen |-> item[2],
                           at_call |-> Erc1155Contract,
                           start |-> balance_of(Erc1155Contract, from, token_id),
                           debited |-> 0, credited |-> 0]>>
            /\ UNCHANGED <<storage, last, calls, erc20, erc20_last>>

\* The recipient's callback returns ret and safe_transfer_from goes on from
\* the match on ret (lines 765-784, 835-842) in the storage as the callback
\* has left it.  A panic ends the transaction: the storage is again what it
\* was at the call.
ReceiverReturns ==
    /\ stack # <<>>
    /\ LET f == stack[Len(stack)]
       IN  \E ret \in CallResults("Ok", f.to, FALSE) :
             LET a == transfer_acceptance_check_impl(ret)
                 r == IF a = "Panic" THEN Ret(f.at_call, a, 0)
                      ELSE IF a # "Ok" THEN Ret(Erc1155Contract, a, 0)
                      ELSE safe_transfer_from_commit(Erc1155Contract, f.caller,
                               f.from, f.to, f.token_id, f.amount, f.gen)
             IN  /\ r.self # Erc1155Contract /\ a # "Panic" => Budget
                 /\ Stored(r.self)
                 /\ stack' = <<>>
                 /\ calls' = IF r.self # Erc1155Contract /\ a # "Panic"
                            THEN calls + 1 ELSE calls
                 /\ last' = IF r.self # Erc1155Contract
                            THEN Message("safe_transfer_from", f.caller,
                                         [from |-> f.from, to |-> f.to,
                                          token_id |-> f.token_id,
                                          amount |-> f.amount, gen |-> f.gen,
                                          debited |-> f.debited], r)
                            ELSE last

Next ==
    \/ CreateTokenType
    \/ Mint
    \/ SetApprovalForAll
    \/ SetApproval
    \/ BuyCurrency500
    \/ BuyCurrency
    \/ SafeTransferFrom
    \/ SafeBatchTransferFrom

Spec == Init /\ [][Next]_vars

\* The ledger with recipients that call it back from the acceptance callback
NextReentrant ==
    \/ BuyCurrency500
    \/ BuyCurrency
    \/ SetApprovalForAll
    \/ SafeTransferFrom
    \/ CallReceiver
    \/ ReceiverReturns

SpecReentrant == Init /\ [][NextReentrant]_vars

\* ------------------------------------------------------------------------
\* The companion ledger on its own
\* ------------------------------------------------------------------------
\* alice has deployed Erc20 with new(init_supply) or with default(); the
\* multi-asset ledger stays as its constructor has left it.
InitErc20 ==
    /\ LET r == new("alice", <<"None", 0>>, "")
       IN  /\ founder = r.self.founder
           /\ variety_of_tokens = r.self.variety_of_tokens
           /\ token_infomations = r.self.token_infomations
           /\ balances = r.self.balances
           /\ nfts = r.self.nfts
           /\ approvals = r.self.approvals
           /\ nft_approvals = r.self.nft_approvals
           /\ stack = <<>>
           /\ calls = 0
           /\ last = Message("new", "alice", [initial_amount |-> <<"None", 0>>], r)
    /\ \/ \E init_supply \in Erc20Balances :
            /\ erc20 = erc20_new("alice", init_supply)
            /\ erc20_last = Erc20Message("new", "alice", ZeroAccount, "alice",
                                         init_supply, Erc20Ret(erc20, "Ok"))
       \/ /\ erc20 = erc20_default("alice")
          /\ erc20_last = Erc20Message("default", "alice", ZeroAccount, "alice",
                                       Erc20BalanceMax, Erc20Ret(erc20, "Ok"))

\* The companion ledger after a message that returned r: an Err has written
\* nothing.
Erc20Returned(msg, r) ==
    /\ erc20' = r.self
    /\ erc20_last' = IF r.res = "Ok" THEN msg ELSE erc20_last
    /\ UNCHANGED <<storage, stack, last, calls>>

Erc20Transfer ==
    \E caller \in Callers, to \in Erc20Accounts, value \in Erc20Balances :
        LET r == erc20_transfer(erc20, caller, to, value)
        IN  Erc20Returned(Erc20Message("transfer", caller, caller, to, value, r), r)

Erc20TransferFrom ==
    \E caller \in Callers, from \in Erc20Accounts, to \in Erc20Accounts,
       value \in Erc20Balances :
        LET r == erc20_transfer_from(erc20, caller, from, to, value)
        IN  Erc20Returned(Erc20Message("transfer_from", caller, from, to, value, r), r)

Erc20Approve ==
    \E caller \in Callers, spender \in Erc20Accounts, value \in Erc20Balances :
        LET r == erc20_approve(erc20, caller, spender, value)
        IN  Erc20Returned(Erc20Message("approve", caller, caller, spender, value, r), r)

NextErc20 ==
    \/ Erc20Transfer
    \/ Erc20TransferFrom
    \/ Erc20Approve

SpecErc20 == InitErc20 /\ [][NextErc20]_vars

\* ------------------------------------------------------------------------
\* Properties
\* ------------------------------------------------------------------------
IsFt(self, token_id) == get_token_type_single_impl(self, token_id).kind = "Ft"
IsNft(self, token_id) == get_token_type_single_impl(self, token_id).kind = "Nft"
\* The instance identities that account holds of token_id
Holdings(self, account, token_id) ==
    IF Contains(self.nfts, <<account, token_id>>)
    THEN self.nfts[<<account, token_id>>]
    ELSE <<>>
Transfers == {"safe_transfer_from", "safe_batch_transfer_from"}

\* C1: for each fungible token id the sum of balance_of over all accounts is
\* the initial amount credited at the creation of the type (by new for the
\* currency, by create_token_type for any other type), and no step of the
\* ledger changes that sum afterwards.
C1_FungibleSupplyConserved ==
    /\ last.op = "new" =>
           TotalBalance(Erc1155Contract, CURRENCY_TOKEN_ID)
               = InitialFtAmount(last.args.initial_amount)
    /\ [](\A caller \in Callers, name \in TokenNames, initial_amount \in AmountOptions :
              LET r == create_token_type(Erc1155Contract, caller, name, "Ft",
                                         initial_amount)
              IN  r.res = "Ok" =>
                      TotalBalance(r.self, variety_of_tokens)
                          = InitialFtAmount(initial_amount))
    /\ [][\A token_id \in TokenIds :
              IsFt(Erc1155Contract, token_id) =>
                  TotalBalance(Erc1155Contract', token_id)
                      = TotalBalance(Erc1155Contract, token_id)]_vars

\* A transfer has moved units of the currency between two accounts that are
\* not the ledger, and a mint fee has been paid before it.
C1_Witness ==
    /\ last.op = "safe_transfer_from"
    /\ last.res = "Ok"
    /\ last.args.token_id = CURRENCY_TOKEN_ID
    /\ last.args.amount = MINT_FEE
    /\ last.args.to # ContractAddress
    /\ balance_of(Erc1155Contract, last.args.to, CURRENCY_TOKEN_ID) >= MINT_FEE
    /\ \E a \in Callers, t \in TokenIds : Holdings(Erc1155Contract, a, t) # <<>>

\* C2: for each non-fungible token id an instance identity is in the instance
\* list of at most one account.
C2_ExclusiveOwnership ==
    \A token_id \in TokenIds, a1 \in Accounts, a2 \in Accounts :
        (IsNft(Erc1155Contract, token_id) /\ a1 # a2) =>
            \A i \in DOMAIN Holdings(Erc1155Contract, a1, token_id) :
                ~VecContains(Holdings(Erc1155Contract, a2, token_id),
                             Holdings(Erc1155Contract, a1, token_id)[i])

\* The units of the waiting transfer's token that the step gives to its
\* recipient (a transfer that ends in a panic gives none: the storage goes
\* back to what it was at the call)
Credited(f) ==
    balance_of(Erc1155Contract', f.to, f.token_id)
        - balance_of(Erc1155Contract, f.to, f.token_id)

\* C3: while a safe_transfer_from waits in the acceptance callback of its
\* recipient, the transfers that the callback sends take from `from` no more
\* than the balance `from` had when the outer call began, and when the
\* callback has returned, what they and the outer transfer have taken together
\* is no more than that balance either.
C3_NoDoubleSpend ==
    /\ [](stack # <<>> => stack[1].debited <= stack[1].start)
    /\ [][(/\ stack # <<>> /\ stack' = <<>> /\ last'.res # "Panic"
            /\ stack[1].debited > 0) =>
              stack[1].debited + Credited(stack[1]) <= stack[1].start]_vars

\* C3, with the units counted that `from` receives during the callback: what
\* the transfers of the callback and the outer transfer take from `from` is no
\* more than the balance `from` had when the outer call began and the units it
\* has received since then, and no step creates or destroys units of a
\* fungible token.
C3_NoDoubleSpendOfReceived ==
    /\ [](stack # <<>> =>
              stack[1].debited <= stack[1].start + stack[1].credited)
    /\ [][(stack # <<>> /\ stack' = <<>> /\ last'.res # "Panic") =>
              stack[1].debited + Credited(stack[1])
                  <= stack[1].start + stack[1].credited]_vars
    /\ [][\A token_id \in TokenIds :
              IsFt(Erc1155Contract, token_id) =>
                  TotalBalance(Erc1155Contract', token_id)
                      = TotalBalance(Erc1155Contract, token_id)]_vars

\* An outer transfer has gone through after its recipient's callback had sent
\* a transfer out of the same `from`.
C3_Witness ==
    /\ stack = <<>>
    /\ last.op = "safe_transfer_from"
    /\ last.res = "Ok"
    /\ last.args.amount > 0
    /\ last.args.debited > 0

\* The balances and the instance lists of account, token id by token id
AssetsOf(self, account) ==
    [token_id \in TokenIds |->
        <<balance_of(self, account, token_id), Holdings(self, account, token_id)>>]
\* is_approved_impl(owner, operator, Some(token_id), gen) is Ok(true)
Approved(self, owner, operator, token_id, gen) ==
    LET approved == is_approved_impl(self, owner, operator, Some(token_id),
                                     IF gen # "" THEN Some(gen) ELSE None)
    IN  approved.res = "Ok" /\ approved.val

\* C4: whatever the arguments and the recipient's answer, a safe_transfer_from
\* or safe_batch_transfer_from leaves the balances and the instance lists of
\* `from` as they were unless the caller is `from` or is_approved_impl
\* resolves (from, caller) as approved for the token (and the instance) that
\* is transferred, in the storage the call starts from.
C4_TransferAuthorized ==
    /\ \A caller \in Callers, from \in Callers, to \in Accounts,
          token_id \in TokenIdArgs(Erc1155Contract) :
         \A item \in TransferItems(Erc1155Contract, token_id) :
           \A ret \in CallResults(safe_transfer_from_checks(
                         Erc1155Contract, caller, from, to, token_id, item[2]),
                         to, FALSE) :
             LET r == safe_transfer_from(Erc1155Contract, caller, from, to, token_id,
                                         item[1], item[2], ret)
             IN  AssetsOf(r.self, from) # AssetsOf(Erc1155Contract, from) =>
                     \/ caller = from
                     \/ Approved(Erc1155Contract, from, caller, token_id, item[2])
    /\ \A caller \in Callers, from \in Callers, to \in Accounts, items \in BatchItems :
         \A ret \in CallResults(safe_batch_transfer_from_checks(
                       Erc1155Contract, caller, from, to, items[1], items[2],
                       items[3]), to, TRUE) :
           LET r == safe_batch_transfer_from(Erc1155Contract, caller, from, to,
                                             items[1], items[2], items[3], ret)
           IN  AssetsOf(r.self, from) # AssetsOf(Erc1155Contract, from) =>
                   \/ caller = from
                   \/ \A i \in DOMAIN items[1] :
                          Approved(Erc1155Contract, from, caller, items[1][i],
                                   IF i \in DOMAIN items[3] THEN items[3][i] ELSE "")

\* An operator holding a grant limited to listed token ids has moved units of
\* the owner's currency.
C4_Witness ==
    /\ last.op = "safe_transfer_from"
    /\ last.res = "Ok"
    /\ last.caller # last.args.from
    /\ last.args.amount > 0
    /\ Contains(approvals, <<last.args.from, last.caller>>)
    /\ approvals[<<last.args.from, last.caller>>][1] = "Some"

\* C5: a successful safe_transfer_from of a non-fungible token takes the
\* transferred identity, and nothing else, out of the instance list of `from`
\* and adds that identity, and nothing else, to the instance list of `to`.
\* (A safe_batch_transfer_from never gets as far as moving an instance.)
C5_InstanceMoves ==
    [][(/\ last'.op = "safe_transfer_from"
        /\ last'.res = "Ok"
        /\ IsNft(Erc1155Contract, last'.args.token_id)) =>
           LET token_id == last'.args.token_id
               identity == gen_to_identity_impl(last'.args.gen)
               src == VecSet(Holdings(Erc1155Contract, last'.args.from, token_id))
               dest == VecSet(Holdings(Erc1155Contract, last'.args.to, token_id))
           IN  /\ identity \in src
               /\ VecSet(Holdings(Erc1155Contract', last'.args.from, token_id))
                      = src \ {identity}
               /\ VecSet(Holdings(Erc1155Contract', last'.args.to, token_id))
                      = dest \cup {identity}]_vars

\* C6: for every account and every non-fungible token id, balance_of is the
\* length of the account's instance list for the token.
C6_MirrorConsistent ==
    \A account \in Accounts, token_id \in TokenIds :
        IsNft(Erc1155Contract, token_id) =>
            balance_of(Erc1155Contract, account, token_id)
                = Len(Holdings(Erc1155Contract, account, token_id))

\* C7: a successful safe_transfer_from of a fungible token with amount v takes
\* v from the balance of (from, token), adds v to the balance of (to, token)
\* and changes no other balance.
C7_FungibleTransferEffect ==
    [][(/\ last'.op = "safe_transfer_from"
        /\ last'.res = "Ok"
        /\ IsFt(Erc1155Contract, last'.args.token_id)) =>
           balances' = [balances EXCEPT
                          ![<<last'.args.from, last'.args.token_id>>]
                              = @ - last'.args.amount,
                          ![<<last'.args.to, last'.args.token_id>>]
                              = @ + last'.args.amount]]_vars

\* An owner has sent a part of its currency to another account and keeps the
\* rest.
C7_Witness ==
    /\ last.op = "safe_transfer_from"
    /\ last.res = "Ok"
    /\ last.caller = last.args.from
    /\ IsFt(Erc1155Contract, last.args.token_id)
    /\ last.args.amount = MINT_FEE
    /\ balance_of(Erc1155Contract, last.args.from, last.args.token_id) > 0
    /\ balance_of(Erc1155Contract, last.args.to, last.args.token_id) = MINT_FEE

\* The errors of a transfer
TransferErrors ==
    {"PermissionDenied", "WrongArgument", "BadAdress", "SelfOperation",
     "TransferDenied", "NotAvailable", "Overflow", "NotFound"}

\* C8: a safe_transfer_from that returns an error leaves the balances, the
\* instance lists and the approval entries as they were before the call.
C8_FailedTransferNoEffect ==
    [][(last'.op = "safe_transfer_from" /\ last'.res \in TransferErrors) =>
           storage' = storage]_vars

\* C9: a safe_batch_transfer_from that returns an error leaves the whole
\* storage as it was before the call, whichever item the error comes from.
C9_BatchAllOrNothing ==
    [][(last'.op = "safe_batch_transfer_from" /\ last'.res # "Ok") =>
           storage' = storage]_vars

\* C10: after a successful transfer by an operator (caller # from) the
\* approvals entry and the nft_approvals entry of (from, caller) are gone, and
\* any further safe_transfer_from out of `from` by that caller is refused with
\* PermissionDenied.
C10_ApprovalConsumed ==
    (last.op \in Transfers /\ last.res = "Ok" /\ last.caller # last.args.from) =>
        /\ ~Contains(approvals, <<last.args.from, last.caller>>)
        /\ ~Contains(nft_approvals, <<last.args.from, last.caller>>)
        /\ \A to \in Accounts, token_id \in TokenIdArgs(Erc1155Contract) :
             \A item \in TransferItems(Erc1155Contract, token_id) :
               safe_transfer_from_checks(Erc1155Contract, last.caller,
                                         last.args.from, to, token_id, item[2])
                   = "PermissionDenied"

\* The answers of a recipient that let a single transfer pass according to
\* the interface: no code at the address, or the acknowledgement of
\* on_received, byte for byte.
Acknowledged(ret) ==
    \/ ret[1] = "Err" /\ ret[2] \in {"CodeNotFound", "NotCallable"}
    \/ ret = CallOk(ON_ERC1155_RECEIVED_SELECTOR)

\* C11: the acceptance check of a safe_transfer_from passes exactly when the
\* recipient has no code or its callback returned the 4 bytes of the
\* acknowledgement; with any other returned bytes and any other error of the
\* call the transfer returns TransferDenied.
C11_AcceptanceExact ==
    \A caller \in Callers, from \in Callers, to \in Accounts,
       token_id \in TokenIdArgs(Erc1155Contract) :
      \A item \in TransferItems(Erc1155Contract, token_id) :
        LET checks == safe_transfer_from_checks(Erc1155Contract, caller, from, to,
                                                token_id, item[2])
        IN  checks = "Ok" =>
              \A ret \in CallResults(checks, to, FALSE) :
                LET r == safe_transfer_from(Erc1155Contract, caller, from, to,
                                            token_id, item[1], item[2], ret)
                IN  IF Acknowledged(ret)
                    THEN r = safe_transfer_from_commit(Erc1155Contract, caller, from,
                                                       to, token_id, item[1], item[2])
                    ELSE r.res = "TransferDenied"

\* C12: a safe_transfer_from or safe_batch_transfer_from writes nothing unless
\* the acceptance check has passed: whatever the arguments, when the message
\* returns before the call of the recipient, or the recipient's answer is
\* refused (TransferDenied) or traps the call, the storage is what it was
\* before the message.
C12_NoWriteBeforeAcceptance ==
    /\ \A caller \in Callers, from \in Callers, to \in Accounts,
          token_id \in TokenIdArgs(Erc1155Contract) :
         \A item \in TransferItems(Erc1155Contract, token_id) :
           \A ret \in CallResults(safe_transfer_from_checks(
                         Erc1155Contract, caller, from, to, token_id, item[2]),
                         to, FALSE) :
             LET r == safe_transfer_from(Erc1155Contract, caller, from, to, token_id,
                                         item[1], item[2], ret)
             IN  /\ (ret = None \/ transfer_acceptance_check_impl(ret) # "Ok") =>
                        r.self = Erc1155Contract
                 /\ r.res = "TransferDenied" => r.self = Erc1155Contract
    /\ \A caller \in Callers, from \in Callers, to \in Accounts, items \in BatchItems :
         \A ret \in CallResults(safe_batch_transfer_from_checks(
                       Erc1155Contract, caller, from, to, items[1], items[2],
                       items[3]), to, TRUE) :
           LET r == safe_batch_transfer_from(Erc1155Contract, caller, from, to,
                                             items[1], items[2], items[3], ret)
           IN  /\ (ret = None \/ transfer_acceptance_check_impl(ret) # "Ok") =>
                      r.self = Erc1155Contract
               /\ r.res = "TransferDenied" => r.self = Erc1155Contract

\* An owner holds the currency it sends to rcv: the transfer goes through
\* when rcv acknowledges it and is denied, with nothing written, when rcv
\* answers with other bytes.
C12_Witness ==
    \E from \in Callers :
        /\ balance_of(Erc1155Contract, from, CURRENCY_TOKEN_ID) >= MINT_FEE
        /\ safe_transfer_from_checks(Erc1155Contract, from, from, "rcv",
                                     CURRENCY_TOKEN_ID, "") = "Ok"
        /\ safe_transfer_from(Erc1155Contract, from, from, "rcv", CURRENCY_TOKEN_ID,
                              MINT_FEE, "",
                              CallOk(ON_ERC1155_RECEIVED_SELECTOR)).self
               # Erc1155Contract
        /\ safe_transfer_from(Erc1155Contract, from, from, "rcv", CURRENCY_TOKEN_ID,
                              MINT_FEE, "",
                              CallOk(ON_ERC1155_BATCH_RECEIVED_SELECTOR)).res
               = "TransferDenied"

\* C13 as stated: whenever the instance list of (caller, token_id) holds the
\* identity derived from gen, mint(token_id, gen) by that caller returns
\* AlreadyExist and the list is left as it is.
C13_SecondMintAlreadyExist ==
    \A caller \in Callers, token_id \in TokenIds, gen \in Gens :
        (/\ IsNft(Erc1155Contract, token_id)
         /\ VecContains(Holdings(Erc1155Contract, caller, token_id),
                        gen_to_identity_impl(gen))) =>
            LET r == mint(Erc1155Contract, caller, token_id, gen)
            IN  /\ r.res = "AlreadyExist"
                /\ Holdings(r.self, caller, token_id)
                       = Holdings(Erc1155Contract, caller, token_id)

\* C13, the fee taken into account: whenever the instance list of
\* (caller, token_id) holds the identity derived from gen, mint(token_id, gen)
\* by that caller fails, with AlreadyExist when the caller's currency balance
\* covers the mint fee and with NotEnoughFee when it does not, and no second
\* copy of the identity is added to the list.
C13_SecondMintRefused ==
    \A caller \in Callers, token_id \in TokenIds, gen \in Gens :
        (/\ IsNft(Erc1155Contract, token_id)
         /\ VecContains(Holdings(Erc1155Contract, caller, token_id),
                        gen_to_identity_impl(gen))) =>
            LET r == mint(Erc1155Contract, caller, token_id, gen)
            IN  /\ r.res = IF balance_of(Erc1155Contract, caller, CURRENCY_TOKEN_ID)
                                  >= MINT_FEE
                           THEN "AlreadyExist" ELSE "NotEnoughFee"
                /\ Holdings(r.self, caller, token_id)
                       = Holdings(Erc1155Contract, caller, token_id)

\* A caller has minted the same seed twice: the second mint returned
\* AlreadyExist and the caller holds the one instance.
C13_Witness ==
    /\ last.op = "mint"
    /\ last.res = "AlreadyExist"
    /\ Holdings(Erc1155Contract, last.caller, last.args.token_id)
           = <<gen_to_identity_impl(last.args.gen)>>

\* C14: mint(token_id, gen) of a non-fungible token with a seed, by a caller
\* whose currency balance covers the mint fee and whose own instance list does
\* not hold the identity derived from gen, returns Ok with that identity and
\* adds it to the caller's list, whatever the instance lists of the other
\* accounts hold.
C14_MintIgnoresOtherOwners ==
    \A caller \in Callers, token_id \in TokenIds, gen \in Gens :
        (/\ IsNft(Erc1155Contract, token_id)
         /\ gen # ""
         /\ balance_of(Erc1155Contract, caller, CURRENCY_TOKEN_ID) >= MINT_FEE
         /\ ~VecContains(Holdings(Erc1155Contract, caller, token_id),
                         gen_to_identity_impl(gen))) =>
            LET r == mint(Erc1155Contract, caller, token_id, gen)
            IN  /\ r.res = "Ok"
                /\ r.val = gen_to_identity_impl(gen)
                /\ VecContains(Holdings(r.self, caller, token_id),
                               gen_to_identity_impl(gen))

\* One caller holds the instance minted from a seed, and another caller,
\* holding the fee, mints the same seed of the same token with success.
C14_Witness ==
    \E caller \in Callers, other \in Callers, token_id \in TokenIds,
       gen \in Gens \ {""} :
        /\ other # caller
        /\ last.op = "mint" /\ last.res = "Ok" /\ last.caller = other
        /\ last.args.token_id = token_id /\ last.args.gen = gen
        /\ VecContains(Holdings(Erc1155Contract, other, token_id),
                       gen_to_identity_impl(gen))
        /\ balance_of(Erc1155Contract, caller, CURRENCY_TOKEN_ID) >= MINT_FEE
        /\ mint(Erc1155Contract, caller, token_id, gen).res = "Ok"

\* The errors of mint
MintErrors ==
    {"NotFound", "WrongArgument", "NotEnoughFee", "AlreadyExist", "Overflow"}

\* C15: a mint that returns an error leaves all balances and all instance
\* lists as they were before the call; in particular a mint that returns
\* AlreadyExist has not taken the fee from the caller.
C15_FailedMintNoEffect ==
    [][(last'.op = "mint" /\ last'.res \in MintErrors) =>
           (balances' = balances /\ nfts' = nfts)]_vars

\* C16: a mint(token_id, gen) that returns Ok has appended the identity derived
\* from gen, and nothing else, to the instance list of (caller, token_id), has
\* added 1 to the caller's balance of token_id, has taken MINT_FEE from the
\* caller's balance of the currency and added it to the ledger's, and has
\* changed no other list and no other balance; and in every state a caller
\* whose currency balance is below the fee gets NotEnoughFee for a
\* non-fungible token id and a seed.
C16_MintEffect ==
    /\ [](\A caller \in Callers, token_id \in TokenIds, gen \in Gens :
              (/\ IsNft(Erc1155Contract, token_id)
               /\ gen # ""
               /\ balance_of(Erc1155Contract, caller, CURRENCY_TOKEN_ID) < MINT_FEE) =>
                  LET r == mint(Erc1155Contract, caller, token_id, gen)
                  IN  r.res = "NotEnoughFee" /\ r.self = Erc1155Contract)
    /\ [][(last'.op = "mint" /\ last'.res = "Ok") =>
              LET caller == last'.caller
                  token_id == last'.args.token_id
                  identity == gen_to_identity_impl(last'.args.gen)
              IN  /\ last'.val = identity
                  /\ nfts' = Insert(nfts, <<caller, token_id>>,
                                    Append(Holdings(Erc1155Contract, caller, token_id),
                                           identity))
                  /\ balances' = [balances EXCEPT
                                    ![<<caller, token_id>>] = @ + 1,
                                    ![<<caller, CURRENCY_TOKEN_ID>>] = @ - MINT_FEE,
                                    ![<<ContractAddress, CURRENCY_TOKEN_ID>>]
                                        = @ + MINT_FEE]]_vars

\* A caller has minted a second instance of a token: it holds two identities,
\* a balance of 2 and what is left of its currency.
C16_Witness ==
    /\ last.op = "mint"
    /\ last.res = "Ok"
    /\ Len(Holdings(Erc1155Contract, last.caller, last.args.token_id)) = 2
    /\ balance_of(Erc1155Contract, last.caller, last.args.token_id) = 2
    /\ balance_of(Erc1155Contract, last.caller, CURRENCY_TOKEN_ID) > 0
    /\ balance_of(Erc1155Contract, ContractAddress, CURRENCY_TOKEN_ID) >= 2 * MINT_FEE

\* The optional arguments of is_approved
OptionalTokenIds == {None} \cup {Some(token_id) : token_id \in TokenIds}
OptionalGens == {None} \cup {Some(gen) : gen \in Gens}

\* C17: while the approvals entry of (owner, operator) has the scope All,
\* is_approved(owner, operator, token_id, nft_gen) returns Ok(true) for every
\* token id, assigned or not, fungible or not, given or omitted, and every
\* seed, given or omitted, and is_approved_for_all returns true.
C17_FullScopeApprovesAll ==
    \A owner \in Accounts, operator \in Accounts :
        (/\ Contains(approvals, <<owner, operator>>)
         /\ approvals[<<owner, operator>>][1] = "All") =>
            /\ \A token_id \in OptionalTokenIds, nft_gen \in OptionalGens :
                   is_approved(Erc1155Contract, owner, operator, token_id, nft_gen)
                       = [res |-> "Ok", val |-> TRUE]
            /\ is_approved_for_all(Erc1155Contract, owner, operator)

\* An owner has widened a grant of listed token ids to the scope All while a
\* non-fungible token type exists.
C17_Witness ==
    \E owner \in Callers, operator \in Callers, token_id \in TokenIds :
        /\ Contains(approvals, <<owner, operator>>)
        /\ approvals[<<owner, operator>>][1] = "All"
        /\ approvals[<<owner, operator>>][2] # <<>>
        /\ IsNft(Erc1155Contract, token_id)
        /\ last.op = "set_approval_for_all"

\* C18: while the approvals entry of (owner, operator) has the scope Some and
\* an empty list of token ids, is_approved never returns Ok(true) for the
\* pair, whatever token id and seed are given or omitted, is_approved_for_all
\* returns false, and no safe_transfer_from or safe_batch_transfer_from out
\* of owner called by operator returns Ok or writes anything, whatever its
\* arguments and the recipient's answer.
C18_EmptyLimitedApprovesNothing ==
    \A owner \in Callers, operator \in Callers :
        (/\ owner # operator
         /\ Contains(approvals, <<owner, operator>>)
         /\ approvals[<<owner, operator>>] = <<"Some", <<>>>>) =>
            /\ \A token_id \in OptionalTokenIds, nft_gen \in OptionalGens :
                   ~is_approved(Erc1155Contract, owner, operator, token_id,
                                nft_gen).val
            /\ ~is_approved_for_all(Erc1155Contract, owner, operator)
            /\ \A to \in Accounts, token_id \in TokenIdArgs(Erc1155Contract) :
                 \A item \in TransferItems(Erc1155Contract, token_id) :
                   \A ret \in CallResults(safe_transfer_from_checks(
                                 Erc1155Contract, operator, owner, to, token_id,
                                 item[2]), to, FALSE) :
                     LET r == safe_transfer_from(Erc1155Contract, operator, owner, to,
                                                 token_id, item[1], item[2], ret)
                     IN  r.res # "Ok" /\ r.self = Erc1155Contract
            /\ \A to \in Accounts, items \in BatchItems :
                 \A ret \in CallResults(safe_batch_transfer_from_checks(
                               Erc1155Contract, operator, owner, to, items[1],
                               items[2], items[3]), to, TRUE) :
                   LET r == safe_batch_transfer_from(Erc1155Contract, operator, owner,
                                                     to, items[1], items[2], items[3],
                                                     ret)
                   IN  r.res # "Ok" /\ r.self = Erc1155Contract

\* An owner holding currency has granted the scope All to an operator and
\* taken it back: the entry is left with the scope Some and no token id.
C18_Witness ==
    \E owner \in Callers, operator \in Callers :
        /\ owner # operator
        /\ Contains(approvals, <<owner, operator>>)
        /\ approvals[<<owner, operator>>] = <<"Some", <<>>>>
        /\ last.op = "set_approval_for_all"
        /\ last.caller = owner
        /\ balance_of(Erc1155Contract, owner, CURRENCY_TOKEN_ID) >= MINT_FEE

\* The instance identities approved for the pair
InstanceApprovals(self, pair) ==
    IF Contains(self.nft_approvals, pair) THEN self.nft_approvals[pair] ELSE <<>>

\* C19: for a pair without approvals entry is_approved returns Ok(false)
\* whatever the arguments; for a pair whose entry has the scope Some it returns
\* WrongArgument when the token id is omitted, and for an assigned token id:
\* for a fungible token Ok(true) exactly when the id is in the entry's list,
\* for a non-fungible token WrongArgument when the seed is omitted and
\* otherwise Ok(true) exactly when the id is in the entry's list and the
\* identity derived from the seed is in the pair's list of nft_approvals.
C19_LimitedScopeResolution ==
    \A owner \in Accounts, operator \in Accounts :
      LET pair == <<owner, operator>>
      IN  \A op_token_id \in OptionalTokenIds, op_nft_gen \in OptionalGens :
            LET r == is_approved(Erc1155Contract, owner, operator, op_token_id,
                                 op_nft_gen)
            IN  /\ ~Contains(approvals, pair) => r = [res |-> "Ok", val |-> FALSE]
                /\ (Contains(approvals, pair) /\ approvals[pair][1] = "Some") =>
                     IF op_token_id = None THEN r.res = "WrongArgument"
                     ELSE IF IsFt(Erc1155Contract, op_token_id[1])
                     THEN r = [res |-> "Ok",
                               val |-> VecContains(approvals[pair][2], op_token_id[1])]
                     ELSE IF IsNft(Erc1155Contract, op_token_id[1])
                     THEN IF op_nft_gen = None THEN r.res = "WrongArgument"
                          ELSE r = [res |-> "Ok",
                                    val |-> /\ VecContains(approvals[pair][2],
                                                           op_token_id[1])
                                            /\ VecContains(
                                                   InstanceApprovals(Erc1155Contract,
                                                                     pair),
                                                   gen_to_identity_impl(op_nft_gen[1]))]
                     ELSE TRUE

\* An owner has approved one of its instances of a non-fungible token for an
\* operator: the query answers true for that seed and false for another.
C19_Witness ==
    \E owner \in Callers, operator \in Callers, token_id \in TokenIds :
        /\ IsNft(Erc1155Contract, token_id)
        /\ Contains(approvals, <<owner, operator>>)
        /\ approvals[<<owner, operator>>][1] = "Some"
        /\ is_approved(Erc1155Contract, owner, operator, Some(token_id), Some("a")).val
        /\ ~is_approved(Erc1155Contract, owner, operator, Some(token_id), Some("b")).val
        /\ ~is_approved(Erc1155Contract, owner, operator, Some(CURRENCY_TOKEN_ID),
                        None).val

\* set_approval(operator, [(token_id, Some([gen]))]) by caller
ApproveInstance(self, caller, operator, token_id, gen) ==
    set_approval(self, caller, operator, <<<<token_id, Some(<<gen>>)>>>>)

\* A caller whose instance list of a non-fungible token does not hold the
\* identity derived from gen (the caller may hold no list at all) is refused
\* with PermissionDenied and nft_approvals is left as it is.
UnheldInstanceRefused ==
    \A caller \in Callers, operator \in Callers, token_id \in TokenIds,
       gen \in Gens :
        (/\ caller # operator
         /\ IsNft(Erc1155Contract, token_id)
         /\ ~VecContains(Holdings(Erc1155Contract, caller, token_id),
                         gen_to_identity_impl(gen))) =>
            LET r == ApproveInstance(Erc1155Contract, caller, operator, token_id, gen)
            IN  r.res = "PermissionDenied" /\ r.self.nft_approvals = nft_approvals

\* After a safe_transfer_from has moved an instance out of `from`, `from` is
\* refused with PermissionDenied for that instance and nft_approvals is left
\* as it is.
TransferredInstanceRefused ==
    (/\ last.op = "safe_transfer_from"
     /\ last.res = "Ok"
     /\ last.args.amount = 1
     /\ IsNft(Erc1155Contract, last.args.token_id)) =>
        \A operator \in Callers \ {last.args.from} :
            LET r == ApproveInstance(Erc1155Contract, last.args.from, operator,
                                     last.args.token_id, last.args.gen)
            IN  r.res = "PermissionDenied" /\ r.self.nft_approvals = nft_approvals

\* C20: set_approval for a non-fungible token id with a seed whose identity
\* the caller does not own returns PermissionDenied and records no approval
\* of an instance: when the caller's list does not hold the identity, when the
\* caller has no list for the token, and when the caller has transferred the
\* instance away.
C20_UnownedInstanceNotApprovable ==
    UnheldInstanceRefused /\ TransferredInstanceRefused

\* C21: whatever the arguments, a safe_transfer_from or
\* safe_batch_transfer_from whose caller is not `from` returns
\* PermissionDenied when is_approved_impl, asked as the message asks it,
\* returns Ok(false) or an error.
C21_UnapprovedIsPermissionDenied ==
    /\ \A caller \in Callers, from \in Callers, to \in Accounts,
          token_id \in TokenIdArgs(Erc1155Contract) :
         \A item \in TransferItems(Erc1155Contract, token_id) :
           LET approved == is_approved_impl(Erc1155Contract, from, caller,
                               Some(token_id),
                               IF item[2] # "" THEN Some(item[2]) ELSE None)
           IN  (caller # from /\ (approved.res # "Ok" \/ ~approved.val)) =>
                 \A ret \in CallResults(safe_transfer_from_checks(
                               Erc1155Contract, caller, from, to, token_id,
                               item[2]), to, FALSE) :
                   safe_transfer_from(Erc1155Contract, caller, from, to, token_id,
                                      item[1], item[2], ret).res = "PermissionDenied"
    /\ \A caller \in Callers, from \in Callers, to \in Accounts, items \in BatchItems :
         LET approved == is_approved_impl(Erc1155Contract, from, caller, None, None)
         IN  (caller # from /\ (approved.res # "Ok" \/ ~approved.val)) =>
               \A ret \in CallResults(safe_batch_transfer_from_checks(
                             Erc1155Contract, caller, from, to, items[1], items[2],
                             items[3]), to, TRUE) :
                 safe_batch_transfer_from(Erc1155Contract, caller, from, to, items[1],
                                          items[2], items[3], ret).res
                     = "PermissionDenied"

\* C22: in every state create_token_type returns PermissionDenied to any
\* caller that is not the founder and WrongArgument to the founder giving an
\* empty name, with the storage left as it was; and no step changes the
\* founder, or changes the type counter or the registry unless it is a
\* create_token_type of the founder.
C22_OnlyFounderCreates ==
    /\ [](\A caller \in Accounts, name \in TokenNames, token_kind \in TokenKinds,
             initial_amount \in AmountOptions :
              LET r == create_token_type(Erc1155Contract, caller, name, token_kind,
                                         initial_amount)
              IN  /\ caller # founder =>
                         r.res = "PermissionDenied" /\ r.self = Erc1155Contract
                  /\ (caller = founder /\ name = "") =>
                         r.res = "WrongArgument" /\ r.self = Erc1155Contract)
    /\ [][/\ founder' = founder
          /\ (variety_of_tokens' # variety_of_tokens
                  \/ token_infomations' # token_infomations) =>
                 (/\ last'.op = "create_token_type"
                  /\ last'.res = "Ok"
                  /\ last'.caller = founder)]_vars

\* The founder has added a token type, and the other caller holds currency
\* of its own.
C22_Witness ==
    /\ last.op = "create_token_type"
    /\ last.res = "Ok"
    /\ last.caller = founder
    /\ variety_of_tokens = 2
    /\ \E caller \in Callers \ {founder} :
           balance_of(Erc1155Contract, caller, CURRENCY_TOKEN_ID) > 0

\* C23: a create_token_type that returns Ok(id) has registered the name and
\* kind of the new type under id, the type counter as it was before the call,
\* and has raised the counter by one; a create_token_type that returns
\* Overflow has changed nothing.
C23_CreateReturnsAssignedId ==
    /\ [](\A caller \in Callers, name \in TokenNames, token_kind \in TokenKinds,
             initial_amount \in AmountOptions :
              LET r == create_token_type(Erc1155Contract, caller, name, token_kind,
                                         initial_amount)
              IN  r.res = "Overflow" => r.self = Erc1155Contract)
    /\ [][(last'.op = "create_token_type" /\ last'.res = "Ok") =>
              /\ variety_of_tokens' = variety_of_tokens + 1
              /\ ~Contains(token_infomations, variety_of_tokens)
              /\ Contains(token_infomations', variety_of_tokens)
              /\ token_infomations'[variety_of_tokens][2] = last'.args.token_kind
              /\ last'.val = variety_of_tokens]_vars

\* The amount that an initial-supply policy stands for
PolicyAmount(initial_amount) ==
    IF initial_amount[1] = "None" THEN 0
    ELSE IF initial_amount[1] = "Some" THEN initial_amount[2]
    ELSE MAX_CURRENCY_AMOUNT

\* C24: after construction with a policy the ledger's account holds the
\* policy's amount of the currency and every other account 0; and in every
\* state a create_token_type that returns Ok leaves, for the new id, the
\* policy's amount (0, n or the maximum) with the ledger's account and 0 with
\* every other account when the kind is Ft, and 0 with every account when
\* the kind is Nft, and changes no balance of another id.
C24_InitialSupplyToLedger ==
    /\ last.op = "new" =>
           \A account \in Accounts :
               balance_of(Erc1155Contract, account, CURRENCY_TOKEN_ID)
                   = IF account = ContractAddress
                     THEN PolicyAmount(last.args.initial_amount) ELSE 0
    /\ \A caller \in Callers, name \in TokenNames, token_kind \in TokenKinds,
          initial_amount \in AmountOptions :
           LET r == create_token_type(Erc1155Contract, caller, name, token_kind,
                                      initial_amount)
               id == variety_of_tokens
           IN  r.res = "Ok" =>
                 /\ \A account \in Accounts :
                        balance_of(r.self, account, id)
                            = IF token_kind = "Ft" /\ account = ContractAddress
                              THEN PolicyAmount(initial_amount) ELSE 0
                 /\ \A account \in Accounts, token_id \in TokenIds \ {id} :
                        balance_of(r.self, account, token_id)
                            = balance_of(Erc1155Contract, account, token_id)

\* The founder has created a second fungible type with the policy Max after
\* currency had been bought from the pool.
C24_Witness ==
    /\ last.op = "create_token_type"
    /\ last.res = "Ok"
    /\ last.args.token_kind = "Ft"
    /\ balance_of(Erc1155Contract, ContractAddress, 1) = MAX_CURRENCY_AMOUNT
    /\ \E caller \in Callers :
           balance_of(Erc1155Contract, caller, CURRENCY_TOKEN_ID) > 0

\* C25: in every state token id 0 is registered as a fungible type, and no
\* step removes or changes the registry entry of an assigned token id.
C25_RegistryImmutable ==
    /\ [](/\ Contains(token_infomations, CURRENCY_TOKEN_ID)
          /\ token_infomations[CURRENCY_TOKEN_ID][2] = "Ft")
    /\ [][\A token_id \in DOMAIN token_infomations :
              /\ Contains(token_infomations', token_id)
              /\ token_infomations'[token_id] = token_infomations[token_id]]_vars

\* A second type has been created, and a message other than a creation has
\* written to the storage since.
C25_Witness ==
    /\ Contains(token_infomations, 1)
    /\ last.op \in {"mint", "safe_transfer_from"}
    /\ last.res = "Ok"
    /\ last.args.token_id = 1

\* C26: in every state the registry has an entry for exactly the ids
\* 0 .. variety_of_tokens - 1, and get_token_types_list returns Ok with one
\* (id, name, kind) per assigned id, in the order of the ids.
C26_RegistryDense ==
    /\ DOMAIN token_infomations = 0 .. (variety_of_tokens - 1)
    /\ LET r == get_token_types_list_impl(Erc1155Contract)
       IN  /\ r.res = "Ok"
           /\ Len(r.list) = variety_of_tokens
           /\ \A i \in 1 .. Len(r.list) :
                  r.list[i] = <<i - 1, token_infomations[i - 1][1],
                                token_infomations[i - 1][2]>>

\* The founder has added a non-fungible type to the currency: the list has
\* two entries of different kinds.
C26_Witness ==
    /\ variety_of_tokens = 2
    /\ get_token_types_list_impl(Erc1155Contract).list
           = <<<<0, DEFAULT_CURRENCY_NAME, "Ft">>, <<1, "item", "Nft">>>>

\* The caller passes the approval test of safe_batch_transfer_from
ApprovedForBatch(self, owner, operator) ==
    LET approved == is_approved_impl(self, owner, operator, None, None)
    IN  approved.res = "Ok" /\ approved.val

\* The error that a transfer to `to` out of `from` is refused with on account
\* of its recipient
AddressError(from, to) == IF to = ZeroAccount THEN "BadAdress" ELSE "SelfOperation"

\* C27 as stated: whoever calls, a safe_transfer_from or
\* safe_batch_transfer_from with to = zero account returns BadAdress and one
\* with to = from returns SelfOperation, without a call of the recipient and
\* with the storage left as it was.
C27_BadRecipientRefused ==
    /\ \A caller \in Callers, from \in Callers,
          token_id \in TokenIdArgs(Erc1155Contract) :
         \A to \in {ZeroAccount, from},
            item \in TransferItems(Erc1155Contract, token_id) :
           LET checks == safe_transfer_from_checks(Erc1155Contract, caller, from, to,
                                                   token_id, item[2])
           IN  /\ checks # "Ok"
               /\ \A ret \in CallResults(checks, to, FALSE) :
                    LET r == safe_transfer_from(Erc1155Contract, caller, from, to,
                                                token_id, item[1], item[2], ret)
                    IN  r.res = AddressError(from, to) /\ r.self = Erc1155Contract
    /\ \A caller \in Callers, from \in Callers, items \in BatchItems :
        \A to \in {ZeroAccount, from} :
         LET checks == safe_batch_transfer_from_checks(Erc1155Contract, caller, from,
                                                       to, items[1], items[2], items[3])
         IN  /\ checks # "Ok"
             /\ \A ret \in CallResults(checks, to, TRUE) :
                  LET r == safe_batch_transfer_from(Erc1155Contract, caller, from, to,
                                                    items[1], items[2], items[3], ret)
                  IN  r.res = AddressError(from, to) /\ r.self = Erc1155Contract

\* C27, the approval test taken into account: a safe_transfer_from or
\* safe_batch_transfer_from with to = zero account or to = from makes no call
\* of the recipient, returns an error and leaves the storage as it was; the
\* error is BadAdress for the zero account and SelfOperation for to = from
\* when the caller is `from` or passes the approval test of the message (a
\* caller that does not is refused by that test before `to` is looked at).
C27_BadRecipientRefusedAfterApproval ==
    /\ \A caller \in Callers, from \in Callers,
          token_id \in TokenIdArgs(Erc1155Contract) :
         \A to \in {ZeroAccount, from},
            item \in TransferItems(Erc1155Contract, token_id) :
           LET checks == safe_transfer_from_checks(Erc1155Contract, caller, from, to,
                                                   token_id, item[2])
           IN  /\ checks # "Ok"
               /\ \A ret \in CallResults(checks, to, FALSE) :
                    LET r == safe_transfer_from(Erc1155Contract, caller, from, to,
                                                token_id, item[1], item[2], ret)
                    IN  /\ r.res # "Ok" /\ r.self = Erc1155Contract
                        /\ (caller = from
                              \/ Approved(Erc1155Contract, from, caller, token_id,
                                          item[2])) =>
                               r.res = AddressError(from, to)
    /\ \A caller \in Callers, from \in Callers, items \in BatchItems :
        \A to \in {ZeroAccount, from} :
         LET checks == safe_batch_transfer_from_checks(Erc1155Contract, caller, from,
                                                       to, items[1], items[2], items[3])
         IN  /\ checks # "Ok"
             /\ \A ret \in CallResults(checks, to, TRUE) :
                  LET r == safe_batch_transfer_from(Erc1155Contract, caller, from, to,
                                                    items[1], items[2], items[3], ret)
                  IN  /\ r.res # "Ok" /\ r.self = Erc1155Contract
                      /\ (caller = from
                            \/ ApprovedForBatch(Erc1155Contract, from, caller)) =>
                             r.res = AddressError(from, to)

\* An owner holding currency has an operator approved for all: the
\* operator's transfer of the owner's currency to the zero account is refused
\* with BadAdress, and to the owner itself with SelfOperation.
C27_Witness ==
    \E from \in Callers, caller \in Callers :
        /\ caller # from
        /\ ApprovedForBatch(Erc1155Contract, from, caller)
        /\ balance_of(Erc1155Contract, from, CURRENCY_TOKEN_ID) >= MINT_FEE
        /\ safe_transfer_from(Erc1155Contract, caller, from, ZeroAccount,
                              CURRENCY_TOKEN_ID, MINT_FEE, "", None).res = "BadAdress"
        /\ safe_transfer_from(Erc1155Contract, caller, from, from,
                              CURRENCY_TOKEN_ID, MINT_FEE, "", None).res
               = "SelfOperation"

\* What a purchase of amount by caller with transferred_value attached must
\* return as r: NotEnoughFee and nothing written when the payment is below
\* the amount, an error and nothing written when the pool holds less than the
\* amount, and otherwise Ok(amount) with the amount moved from the pool to
\* the caller's balance of the currency and nothing else changed.
PurchaseAsStated(r, caller, transferred_value, amount) ==
    IF transferred_value < amount
    THEN r.res = "NotEnoughFee" /\ r.self = Erc1155Contract
    ELSE IF remained_currency_pool(Erc1155Contract) < amount
    THEN r.res = "NotAvailable" /\ r.self = Erc1155Contract
    ELSE /\ r.res = "Ok"
         /\ r.val = amount
         /\ r.self = [Erc1155Contract EXCEPT
                        !.balances = [@ EXCEPT
                            ![<<ContractAddress, CURRENCY_TOKEN_ID>>] = @ - amount,
                            ![<<caller, CURRENCY_TOKEN_ID>>] = @ + amount]]

\* C28: in every state, for every caller and every attached payment,
\* buy_currency_500 behaves as a purchase of 500 and buy_currency(how_much)
\* as a purchase of how_much.
C28_PurchaseEffect ==
    \A caller \in Callers, transferred_value \in TransferredValues :
        /\ PurchaseAsStated(
               buy_currency_500(Erc1155Contract, caller, transferred_value),
               caller, transferred_value, BUY_AMOUNT_500)
        /\ \A how_much \in HowMuch \cup {BUY_AMOUNT_500} :
               PurchaseAsStated(
                   buy_currency(Erc1155Contract, caller, transferred_value, how_much),
                   caller, transferred_value, how_much)

\* A caller has bought 500: the pool holds less than 500 now, so that a
\* further buy_currency_500 finds it insufficient.
C28_Witness ==
    /\ last.op = "buy_currency_500"
    /\ last.res = "Ok"
    /\ balance_of(Erc1155Contract, last.caller, CURRENCY_TOKEN_ID) = BUY_AMOUNT_500
    /\ remained_currency_pool(Erc1155Contract) < BUY_AMOUNT_500
    /\ buy_currency_500(Erc1155Contract, last.caller, BUY_AMOUNT_500).res
           = "NotAvailable"

\* The balances that a move is tried on, and the amounts moved
BalanceValues == {0, MINT_FEE, BalanceMax - MINT_FEE, BalanceMax}
MoveAmounts == {0, MINT_FEE, BalanceMax}

\* C29: every stored balance is within the range of Balance in every state;
\* and with any balances held at the source and at the destination of a move
\* of the currency, transfer_token_impl returns NotAvailable when the amount
\* exceeds the source balance and otherwise Overflow when the destination
\* balance and the amount together exceed the maximum of Balance, with the
\* storage as it was in both cases, and otherwise Ok with the amount taken
\* from the source and added to the destination; and create_nft_impl for a
\* caller whose balance of the token is the maximum returns Overflow (unless
\* AlreadyExist) with no balance written.
C29_CheckedBalanceMove ==
    /\ \A account \in Accounts, token_id \in TokenIds :
           balance_of(Erc1155Contract, account, token_id) \in 0 .. BalanceMax
    /\ \A from \in Callers, src_balance \in BalanceValues,
          dest_balance \in BalanceValues, amount \in MoveAmounts :
         \A to \in Accounts \ {from} :
           LET self == [Erc1155Contract EXCEPT
                          !.balances = [@ EXCEPT
                              ![<<from, CURRENCY_TOKEN_ID>>] = src_balance,
                              ![<<to, CURRENCY_TOKEN_ID>>] = dest_balance]]
               r == transfer_token_impl(self, from, CURRENCY_TOKEN_ID, from, to,
                                        amount)
           IN  IF amount > src_balance
               THEN r.res = "NotAvailable" /\ r.self = self
               ELSE IF dest_balance + amount > BalanceMax
               THEN r.res = "Overflow" /\ r.self = self
               ELSE /\ r.res = "Ok"
                    /\ r.self.balances = [self.balances EXCEPT
                           ![<<from, CURRENCY_TOKEN_ID>>] = src_balance - amount,
                           ![<<to, CURRENCY_TOKEN_ID>>] = dest_balance + amount]
    /\ \A caller \in Callers, token_id \in TokenIds, gen \in Gens \ {""} :
         IsNft(Erc1155Contract, token_id) =>
           LET self == [Erc1155Contract EXCEPT
                          !.balances[<<caller, token_id>>] = BalanceMax]
               r == create_nft_impl(self, caller, token_id, gen)
           IN  /\ r.res = IF VecContains(Holdings(self, caller, token_id),
                                         gen_to_identity_impl(gen))
                          THEN "AlreadyExist" ELSE "Overflow"
               /\ r.self.balances = self.balances

\* The pool holds the maximum of Balance and a caller nothing: a payment of
\* the mint fee by that caller is refused with NotAvailable, and a credit to
\* the pool would overflow.
C29_Witness ==
    /\ remained_currency_pool(Erc1155Contract) = BalanceMax
    /\ calls > 0
    /\ \E caller \in Callers :
           /\ balance_of(Erc1155Contract, caller, CURRENCY_TOKEN_ID) = 0
           /\ pay(Erc1155Contract, caller, MINT_FEE).res = "NotAvailable"
           /\ CheckedAdd(remained_currency_pool(Erc1155Contract), MINT_FEE) = None

\* C30: a safe_batch_transfer_from that has come to its acceptance check goes
\* on to its commit part when the recipient's callback has returned the
\* acknowledgement of on_batch_received, and returns TransferDenied when the
\* callback has returned any other bytes.
C30_BatchAcknowledgement ==
    \A caller \in Callers, from \in Callers, to \in Accounts, items \in BatchItems :
        LET checks == safe_batch_transfer_from_checks(Erc1155Contract, caller, from,
                                                      to, items[1], items[2], items[3])
        IN  checks = "Ok" =>
              \A ret \in CallResults(checks, to, TRUE) :
                ret[1] = "Ok" =>
                  LET r == safe_batch_transfer_from(Erc1155Contract, caller, from, to,
                                                    items[1], items[2], items[3], ret)
                  IN  IF ret[2] = ON_ERC1155_BATCH_RECEIVED_SELECTOR
                      THEN r = safe_batch_transfer_from_commit(
                                   Erc1155Contract, caller, from, to, items[1],
                                   items[2], items[3])
                      ELSE r.res = "TransferDenied"

\* The token ids listed in the approvals entry of the pair
ListedIds(self, pair) ==
    IF Contains(self.approvals, pair) THEN self.approvals[pair][2] ELSE <<>>

\* C31: in every state set_approval_for_all(operator, approved) returns
\* BadAdress for the zero account and SelfOperation for the caller itself,
\* with the storage as it was; for any other operator it returns Ok, after
\* which is_approved_for_all(caller, operator) is `approved`, the token ids
\* listed for the pair are those listed before (so that with approved = false
\* a fungible token resolves as approved exactly when it was listed before),
\* and nothing but the pair's approvals entry has changed.
C31_SetApprovalForAllEffect ==
    \A caller \in Callers, operator \in Operators, approved \in BOOLEAN :
        LET r == set_approval_for_all(Erc1155Contract, caller, operator, approved)
            pair == <<caller, operator>>
        IN  IF operator = ZeroAccount
            THEN r.res = "BadAdress" /\ r.self = Erc1155Contract
            ELSE IF operator = caller
            THEN r.res = "SelfOperation" /\ r.self = Erc1155Contract
            ELSE /\ r.res = "Ok"
                 /\ is_approved_for_all(r.self, caller, operator) = approved
                 /\ ListedIds(r.self, pair) = ListedIds(Erc1155Contract, pair)
                 /\ ~approved =>
                        \A token_id \in TokenIds :
                            IsFt(Erc1155Contract, token_id) =>
                                is_approved(r.self, caller, operator, Some(token_id),
                                            None)
                                    = [res |-> "Ok",
                                       val |-> VecContains(
                                                   ListedIds(Erc1155Contract, pair),
                                                   token_id)]
                 /\ \A other \in DOMAIN r.self.approvals \cup DOMAIN approvals :
                        other # pair =>
                            /\ Contains(r.self.approvals, other)
                            /\ Contains(approvals, other)
                            /\ r.self.approvals[other] = approvals[other]
                 /\ [r.self EXCEPT !.approvals = approvals] = Erc1155Contract

\* An owner has listed the currency for an operator, widened the grant to
\* the scope All and taken the scope All back: the entry is Limited to the
\* currency again.
C31_Witness ==
    /\ last.op = "set_approval_for_all"
    /\ last.res = "Ok"
    /\ Contains(approvals, <<last.caller, last.args.operator>>)
    /\ approvals[<<last.caller, last.args.operator>>]
           = <<"Some", <<CURRENCY_TOKEN_ID>>>>

\* The step is a mint by account of token_id, or a safe_transfer_from of the
\* non-fungible token_id to account, that has returned Ok.
TakesInstance(account, token_id) ==
    /\ last'.res = "Ok"
    /\ \/ /\ last'.op = "mint"
          /\ last'.caller = account
          /\ last'.args.token_id = token_id
       \/ /\ last'.op = "safe_transfer_from"
          /\ last'.args.to = account
          /\ last'.args.token_id = token_id
          /\ IsNft(Erc1155Contract, token_id)

\* C32: get_nft_owned_list is None for every account and token id after
\* construction; a step makes it Some for (account, token_id) exactly when
\* it is the first successful mint of token_id by the account or the first
\* successful transfer of an instance of token_id to the account; and no
\* step makes it None again.
C32_OwnedListNoneIffNeverHeld ==
    /\ last.op = "new" => DOMAIN nfts = {}
    /\ [][\A account \in Accounts, token_id \in TokenIds :
              LET before == get_nft_owned_list_impl(Erc1155Contract, account,
                                                    token_id)
                  after == get_nft_owned_list_impl(Erc1155Contract', account,
                                                   token_id)
              IN  /\ before # None => after # None
                  /\ before = None =>
                         (after # None <=> TakesInstance(account, token_id))]_vars

\* An account has transferred its only instance away: its list is still
\* Some, and the recipient's list has become Some.
C32_Witness ==
    /\ last.op = "safe_transfer_from"
    /\ last.res = "Ok"
    /\ last.args.amount = 1
    /\ IsNft(Erc1155Contract, last.args.token_id)
    /\ balance_of(Erc1155Contract, last.args.from, last.args.token_id) = 0
    /\ get_nft_owned_list_impl(Erc1155Contract, last.args.from,
                               last.args.token_id) # None
    /\ get_nft_owned_list_impl(Erc1155Contract, last.args.to,
                               last.args.token_id) # None

\* C33: a set_approval that returns an error leaves the approvals and the
\* instance approvals as they were before the call.
C33_FailedGrantRecordsNothing ==
    [][(last'.op = "set_approval" /\ last'.res # "Ok") =>
           /\ approvals' = approvals
           /\ nft_approvals' = nft_approvals]_vars

RECURSIVE DelimitedFrom(_, _)
\* The characters of the seeds from index i on, "|" between two seeds
DelimitedFrom(gens, i) ==
    IF i > Len(gens) THEN <<>>
    ELSE Chars(gens[i]) \o (IF i < Len(gens) THEN <<"|">> ELSE <<>>)
                        \o DelimitedFrom(gens, i + 1)

\* C35: a safe_batch_transfer_from with a non-empty list of seeds that passes
\* the approval, recipient and length tests joins the seeds in order with "|"
\* and goes on to the acceptance check.
C35_BatchDataJoined ==
    \A caller \in Callers, from \in Callers, items \in BatchItems :
      \A to \in Accounts \ {ZeroAccount, from} :
        (/\ items[3] # <<>>
         /\ items[1] # <<>>
         /\ Len(items[1]) = Len(items[2])
         /\ caller = from \/ ApprovedForBatch(Erc1155Contract, from, caller)) =>
            /\ JoinGensFrom(<<>>, items[3], 1) = Some(DelimitedFrom(items[3], 1))
            /\ safe_batch_transfer_from_checks(Erc1155Contract, caller, from, to,
                                               items[1], items[2], items[3]) = "Ok"

\* The approvals entry of (owner, operator) has the scope All
FullScope(self, owner, operator) ==
    /\ Contains(self.approvals, <<owner, operator>>)
    /\ self.approvals[<<owner, operator>>][1] = "All"

\* C36: in every state a safe_batch_transfer_from by a caller other than
\* `from` that has no approvals entry of scope All from `from`, whatever the
\* entry lists, makes no call of the recipient, returns PermissionDenied and
\* leaves the storage as it was; so such a call returns Ok only under scope
\* All.
C36_BatchNeedsFullScope ==
    \A caller \in Callers, to \in Accounts, items \in BatchItems :
      \A from \in Callers \ {caller} :
        LET checks == safe_batch_transfer_from_checks(Erc1155Contract, caller, from,
                                                      to, items[1], items[2], items[3])
        IN  \A ret \in CallResults(checks, to, TRUE) :
              LET r == safe_batch_transfer_from(Erc1155Contract, caller, from, to,
                                                items[1], items[2], items[3], ret)
              IN  /\ ~FullScope(Erc1155Contract, from, caller) =>
                         /\ checks = "PermissionDenied"
                         /\ r.res = "PermissionDenied"
                         /\ r.self = Erc1155Contract
                  /\ r.res = "Ok" => FullScope(Erc1155Contract, from, caller)

\* An owner holding a fee's worth of currency has listed the currency for an
\* operator under the scope Some: the batch <<0>>, <<MINT_FEE>> names only
\* listed token ids.
C36_Witness ==
    \E from \in Callers, caller \in Callers :
        /\ caller # from
        /\ Contains(approvals, <<from, caller>>)
        /\ approvals[<<from, caller>>] = <<"Some", <<CURRENCY_TOKEN_ID>>>>
        /\ balances[<<from, CURRENCY_TOKEN_ID>>] >= MINT_FEE
        /\ <<<<CURRENCY_TOKEN_ID>>, <<MINT_FEE>>, <<>>>> \in BatchItems

\* The approvals entry and the instance approvals entry of a pair
GrantedTo(self, pair) ==
    <<IF Contains(self.approvals, pair) THEN Some(self.approvals[pair]) ELSE None,
      IF Contains(self.nft_approvals, pair) THEN Some(self.nft_approvals[pair])
      ELSE None>>

\* C37: a successful transfer by a caller other than `from` leaves the
\* entries of every pair whose owner is not `from` as they were, those of
\* (caller, from) included.
C37_OtherOwnersApprovalsKept ==
    [][(/\ last'.op \in Transfers
        /\ last'.res = "Ok"
        /\ last'.caller # last'.args.from) =>
           \A owner \in Accounts \ {last'.args.from}, operator \in Accounts :
               GrantedTo(Erc1155Contract', <<owner, operator>>)
                   = GrantedTo(Erc1155Contract, <<owner, operator>>)]_vars

\* C38: the constructor returns for every caller, initial_amount policy and
\* currency name override, with token id 0 registered as the fungible
\* currency and the counter at 1; the state after construction is such a
\* state; and, the counter being set to 0 before the creation, the
\* initialization succeeds on whatever storage it is run.
C38_ConstructorTerminates ==
    /\ \A caller \in Callers, initial_amount \in AmountOptions,
          currency_name_override \in TokenNames :
         LET r == new(caller, initial_amount, currency_name_override)
         IN  /\ r.res = "Ok"
             /\ r.self.founder = caller
             /\ r.self.variety_of_tokens = 1
             /\ IsFt(r.self, CURRENCY_TOKEN_ID)
    /\ last.op = "new" =>
           /\ last.res = "Ok"
           /\ variety_of_tokens = 1
           /\ IsFt(Erc1155Contract, CURRENCY_TOKEN_ID)
    /\ \A caller \in Callers, initial_amount \in AmountOptions,
          currency_name \in TokenNames \ {""} :
         LET r == initialize_contract_impl(Erc1155Contract, caller, currency_name,
                                           initial_amount)
         IN  r.res = "Ok" /\ r.self.variety_of_tokens = 1

\* The ledger has been constructed and every token id has been assigned
\* since: the counter is where checked_add fails, and token id 0 is still
\* the currency that the constructor has registered.
C38_Witness ==
    /\ last.op = "create_token_type"
    /\ last.res = "Ok"
    /\ variety_of_tokens = TokenIdMax
    /\ CheckedAddId(variety_of_tokens, 1) = None
    /\ IsFt(Erc1155Contract, CURRENCY_TOKEN_ID)

\* C39: a transfer_from(from, to, value) of the companion ledger that returns
\* Ok leaves allowance(from, caller) reduced by value.
C39_TransferFromSpendsAllowance ==
    [][(/\ erc20_last'.op = "transfer_from"
        /\ erc20_last'.res = "Ok"
        /\ <<erc20, erc20_last>>' # <<erc20, erc20_last>>) =>
           erc20_allowance_impl(erc20', erc20_last'.from, erc20_last'.caller)
               = erc20_allowance_impl(erc20, erc20_last'.from, erc20_last'.caller)
                     - erc20_last'.value]_vars

\* C40: in every state of the companion ledger the balances add up to
\* total_supply, the last message has not left the range of Balance in an
\* addition or subtraction and no transfer or transfer_from that can be
\* called does; and no step changes total_supply.
C40_SupplyConserved ==
    /\ [](/\ SumOver(erc20.balances, Erc20Accounts) = erc20_total_supply(erc20)
          /\ ~erc20_last.wrapped
          /\ \A caller \in Callers, from \in Erc20Accounts, to \in Erc20Accounts,
                value \in Erc20Balances :
               /\ ~erc20_transfer(erc20, caller, to, value).wrapped
               /\ ~erc20_transfer_from(erc20, caller, from, to, value).wrapped)
    /\ [][erc20_total_supply(erc20') = erc20_total_supply(erc20)]_vars

\* A transfer_from has brought its recipient's balance to the largest
\* Balance: the addition has gone as far as it can without wrapping.
C40_Witness ==
    /\ erc20_last.op = "transfer_from"
    /\ erc20_last.value > 0
    /\ erc20_last.caller # erc20_last.with
    /\ erc20_balance_of_impl(erc20, erc20_last.with) = Erc20BalanceMax
    /\ erc20_total_supply(erc20) = Erc20BalanceMax

====
